---- MODULE Spec2Model ----
(***************************************************************************)
(* Coupon lifecycle engine of Dash-BE-Python (services/coupon).            *)
(*                                                                         *)
(* The database tables are sequences of rows (row id = index, ids are      *)
(* auto-increment and never reused).  NULL is 0.  Every request handler    *)
(* runs as a call of a worker in Procs; a handler that makes several       *)
(* repository calls (each its own session / transaction) is one action per *)
(* repository call, and a repository method that reads and later writes    *)
(* inside one transaction without a locking read is a read step followed   *)
(* by a commit step.                                                       *)
(***************************************************************************)
EXTENDS Integers, Sequences, FiniteSets, TLC

\* ---------------------------------------------------------------- bounds
NumProcs == 2
NumMembers == 2
NumPartners == 2
NumVendors == 1
NumInitCoupons == 2
MaxRegisterLogs == 3
MaxQrs == 2
MaxTime == 90
MaxIssues == 2
MaxRequests == 1
MaxPhoneLen == 4
MaxJoins == 1
MaxTokens == 2
MaxProducts == 3
MaxCoupons == 2
MaxCount == 2
MaxLines == 2
TickStep == 30
InitCouponTtl == 30
Epoch == 1

\* ------------------------------------------------------ program constants
QrTtl == 60
PhoneAuthTokenTtl == 600
ValidDays == 30
DaySeconds == 86400

Null == 0
Procs == 1..NumProcs
Members == 1..NumMembers
Sigs == {1}
Partners == 1..NumPartners
Vendors == 1..NumVendors
Codes == 1..MaxCoupons
Digits == <<"0", "1", "2", "3", "4", "5", "6", "7", "8", "9">>

VARIABLES now, partner_users, phone_auth_tokens, issue_logs, issue_products,
          products, coupons, register_logs, use_logs, payment_qrs, calls

accountVars == <<partner_users, phone_auth_tokens>>
ledgerVars == <<accountVars, issue_products, products>>
registryVars == <<register_logs, use_logs, payment_qrs>>
vars == <<now, partner_users, phone_auth_tokens, issue_logs, issue_products,
          products, coupons, register_logs, use_logs, payment_qrs, calls>>

\* ------------------------------------------------------------- helpers
NoDelete == [ids |-> {}, hard |-> {}, vendor |-> {}, partner |-> {},
             reject |-> {}, invalid |-> {}]

IdleCall ==
    [op |-> "none", pc |-> "idle", coupon |-> Null, member |-> Null,
     code |-> Null, at |-> Null, token |-> Null, result |-> "none",
     issue |-> Null, approve |-> FALSE, alloc |-> <<>>, codes |-> <<>>,
     del |-> NoDelete, items |-> {}]

\* the handler answers; the worker may then take its next request.  What is
\* kept of the call is its answer and, when it succeeded, the rows it named
Finish(p, c, res) ==
    calls' = [calls EXCEPT ![p] =
        IF res = "OK"
          THEN [c EXCEPT !.pc = "done", !.result = res, !.at = Null,
                         !.alloc = <<>>, !.codes = <<>>, !.del = NoDelete]
          ELSE [IdleCall EXCEPT !.op = c.op, !.pc = "done", !.result = res,
                                !.token = c.token]]

Ready(p) == calls[p].pc \in {"idle", "done"}

\* a session left by an exception keeps what its statements wrote
Uncommitted_Kept(before, after) == after

\* a session left by an exception before session.commit(): the rows its
\* statements wrote are discarded when the session is closed
Uncommitted(before, after) == before

RECURSIVE SumCounts(_)
SumCounts(s) == IF s = <<>> THEN 0 ELSE Head(s).count + SumCounts(Tail(s))

\* the lines of a product list that name a product to be created
NewCount(prods) == Len(SelectSeq(prods, LAMBDA a : a.is_new))

CouponsOfIssue(i) == {c \in DOMAIN coupons : coupons[c].issue_id = i}

\* find_coupon_by_id: the row, unless its register log is soft-deleted
FindCouponById(coupon_id) ==
    /\ coupon_id \in DOMAIN coupons
    /\ \/ coupons[coupon_id].register_log_id = Null
       \/ register_logs[coupons[coupon_id].register_log_id].deleted_at = Null

\* ------------------------------------------------------ CouponRegistry
\* the checks without the one on the coupon's current register_id
RegisterCheck_NoOwner(coupon_id, registration_code, member_id) ==
    IF coupon_id \notin DOMAIN coupons THEN "ERR-IVD-VALUE"
    ELSE IF coupons[coupon_id].registration_code # registration_code
      THEN "ERR-IVD-VALUE"
    ELSE "OK"

\* CouponService.register_coupon: the checks on the row read
RegisterCheck(coupon_id, registration_code, member_id) ==
    IF coupon_id \notin DOMAIN coupons THEN "ERR-IVD-VALUE"
    ELSE IF coupons[coupon_id].registration_code # registration_code
      THEN "ERR-IVD-VALUE"
    ELSE IF /\ coupons[coupon_id].register_id # Null
            /\ coupons[coupon_id].register_id # member_id
      THEN "ERR-NOT-YOURS"
    ELSE "OK"

\* CouponService.register_coupon, up to the repository write
RegisterRead(p, coupon_id, registration_code, signature_code, member_id) ==
    /\ Ready(p)
    /\ Len(register_logs)
         + Cardinality({q \in Procs : calls[q].pc = "register_write"})
         < MaxRegisterLogs
    /\ LET c == [IdleCall EXCEPT !.op = "register", !.coupon = coupon_id,
                                 !.member = member_id,
                                 !.code = registration_code,
                                 !.token = signature_code]
       IN  IF RegisterCheck(coupon_id, registration_code, member_id) # "OK"
             THEN Finish(p, c, RegisterCheck(coupon_id, registration_code,
                                             member_id))
             ELSE calls' = [calls EXCEPT ![p] = [c EXCEPT !.pc = "register_write"]]
    /\ UNCHANGED <<now, issue_logs, ledgerVars, coupons, register_logs,
                   use_logs, payment_qrs>>

\* ------------------------------------------------------ consumer's wallet
\* the list query without its filter on the register log
FindCouponsByMemberId_WithDeleted(member_id) ==
    {k \in DOMAIN coupons :
        /\ coupons[k].register_id = member_id
        /\ coupons[k].product_id \in DOMAIN products
        /\ coupons[k].partner_id \in DOMAIN partner_users}

\* SQLAlchemyCouponRepository.find_coupons_by_member_id: the rows of the
\* list query, all pages together
FindCouponsByMemberId(member_id) ==
    {k \in DOMAIN coupons :
        /\ coupons[k].register_id = member_id
        /\ coupons[k].product_id \in DOMAIN products
        /\ coupons[k].partner_id \in DOMAIN partner_users
        /\ \/ coupons[k].register_log_id = Null
           \/ register_logs[coupons[k].register_log_id].deleted_at = Null}

\* CouponService.get_coupons_by_member
GetCouponsByMember(p, member_id) ==
    /\ Ready(p)
    /\ Finish(p, [IdleCall EXCEPT !.op = "list", !.member = member_id,
                                  !.items = FindCouponsByMemberId(member_id)],
              "OK")
    /\ UNCHANGED <<now, issue_logs, ledgerVars, coupons, register_logs,
                   use_logs, payment_qrs>>

\* CouponService.get_coupon_detail: the checks on the row read
DetailCheck(coupon_id, member_id) ==
    IF ~FindCouponById(coupon_id) THEN "ERR-IVD-VALUE"
    ELSE IF coupons[coupon_id].register_id # member_id THEN "ERR-NOT-YOURS"
    ELSE "OK"

\* CouponService.get_coupon_detail
GetCouponDetail(p, coupon_id, member_id) ==
    /\ Ready(p)
    /\ Finish(p, [IdleCall EXCEPT !.op = "detail", !.coupon = coupon_id,
                                  !.member = member_id],
              DetailCheck(coupon_id, member_id))
    /\ UNCHANGED <<now, issue_logs, ledgerVars, coupons, register_logs,
                   use_logs, payment_qrs>>

\* SQLAlchemyCouponRepository.validate_coupon_ownership: the valid ids
ValidateCouponOwnership(coupon_ids, member_id) ==
    {k \in coupon_ids :
        k \in DOMAIN coupons /\ coupons[k].register_id = member_id}

\* the batch check that lets a partly owned batch through
DeleteCheck_AnyOwned(coupon_ids, member_id) ==
    IF ValidateCouponOwnership(coupon_ids, member_id) = {}
      THEN "ERR-IVD-VALUE"
      ELSE "OK"

\* CouponService.delete_coupons: the answer to the ownership validation
DeleteCheck(coupon_ids, member_id) ==
    LET valid_ids == ValidateCouponOwnership(coupon_ids, member_id)
        invalid_ids == coupon_ids \ valid_ids
    IN  IF invalid_ids = {} THEN "OK"
        ELSE IF invalid_ids = coupon_ids THEN "ERR-IVD-VALUE"
        ELSE "ERR-NOT-YOURS"

\* CouponService.delete_coupons, up to mark_coupons_as_deleted; the request
\* schema admits no empty batch
DeleteCouponsValidate(p, coupon_ids, member_id) ==
    /\ Ready(p)
    /\ coupon_ids # {}
    /\ LET c == [IdleCall EXCEPT !.op = "delete_coupons",
                                 !.member = member_id,
                                 !.items = ValidateCouponOwnership(coupon_ids,
                                                                   member_id)]
       IN  IF DeleteCheck(coupon_ids, member_id) # "OK"
             THEN Finish(p, c, DeleteCheck(coupon_ids, member_id))
             ELSE calls' = [calls EXCEPT ![p] = [c EXCEPT !.pc = "mark"]]
    /\ UNCHANGED <<now, issue_logs, ledgerVars, coupons, register_logs,
                   use_logs, payment_qrs>>

\* the rows mark_coupons_as_deleted selects for a batch
MarkedCoupons(coupon_ids, member_id) ==
    {k \in coupon_ids :
        /\ k \in DOMAIN coupons
        /\ coupons[k].register_id = member_id
        /\ coupons[k].product_id \in DOMAIN products
        /\ coupons[k].partner_id \in DOMAIN partner_users}

\* coupons.router.delete_coupons: the bodies the response can carry, the
\* first of the unused coupons in the order the SELECT gave them
Delivered(unused_coupons) ==
    IF unused_coupons = {} THEN {{}} ELSE {{k} : k \in unused_coupons}

\* SQLAlchemyCouponRepository.mark_coupons_as_deleted and the response
MarkCouponsAsDeleted(p) ==
    /\ calls[p].pc = "mark"
    /\ LET rows == MarkedCoupons(calls[p].items, calls[p].member)
           register_log_ids == {coupons[k].register_log_id : k \in rows} \ {Null}
           unused_coupons == {k \in rows : coupons[k].use_log_id = Null}
       IN  /\ register_logs' = [i \in DOMAIN register_logs |->
                  IF i \in register_log_ids /\ register_logs[i].deleted_at = Null
                    THEN [register_logs[i] EXCEPT !.deleted_at = now]
                    ELSE register_logs[i]]
           /\ \E body \in Delivered(unused_coupons) :
                  calls' = [calls EXCEPT ![p] =
                      [calls[p] EXCEPT !.pc = "done", !.result = "OK",
                                       !.items = body]]
    /\ UNCHANGED <<now, issue_logs, ledgerVars, coupons, use_logs, payment_qrs>>

\* SQLAlchemyCouponRepository.register_coupon: unconditional insert + update
RegisterWrite(p) ==
    /\ calls[p].pc = "register_write"
    /\ register_logs' = Append(register_logs,
          [register_user_id |-> calls[p].member, deleted_at |-> Null])
    /\ coupons' = [coupons EXCEPT ![calls[p].coupon] =
          [@ EXCEPT !.register_id = calls[p].member,
                    !.register_log_id = Len(register_logs) + 1,
                    !.signature_code = calls[p].token]]
    /\ Finish(p, calls[p], "OK")
    /\ UNCHANGED <<now, issue_logs, ledgerVars, use_logs, payment_qrs>>

\* SQLAlchemyCouponRepository.find_coupon_by_registration_code: the coupons
\* the SELECT matches, joined to their product and partner rows; LIMIT 1
\* returns one of them
FindCouponByRegistrationCode(registration_code) ==
    {k \in DOMAIN coupons :
        /\ coupons[k].registration_code = registration_code
        /\ coupons[k].product_id \in DOMAIN products
        /\ coupons[k].partner_id \in DOMAIN partner_users}

\* the answer when only another consumer's claim hides the coupon
PreviewCheck_OwnerAllowed(coupon_id, member_id) ==
    IF coupons[coupon_id].register_id \notin {Null, member_id}
      THEN "ERR-NOT-YOURS"
      ELSE "OK"

\* CouponService.get_coupon_by_registration_code: the check on the row found
PreviewCheck(coupon_id, member_id) ==
    IF coupons[coupon_id].register_id # Null THEN "ERR-NOT-YOURS" ELSE "OK"

\* CouponService.get_coupon_by_registration_code: one SELECT, no write
GetCouponByRegistrationCode(p, registration_code, member_id) ==
    /\ Ready(p)
    /\ LET c == [IdleCall EXCEPT !.op = "preview", !.member = member_id,
                                 !.code = registration_code]
           found == FindCouponByRegistrationCode(registration_code)
       IN  IF found = {}
             THEN Finish(p, c, "ERR-IVD-VALUE")
             ELSE \E k \in found :
                    Finish(p, [c EXCEPT !.coupon = k], PreviewCheck(k, member_id))
    /\ UNCHANGED <<now, issue_logs, ledgerVars, coupons, register_logs,
                   use_logs, payment_qrs>>

\* ------------------------------------------------------ PaymentQrBroker
Unexpired(q) == q.expired_at > now

\* the checks of create_payment_qr without the one on register_id
CreateQrCheck_AnyCoupon(p, coupon_id, member_id) ==
    /\ Ready(p)
    /\ Len(payment_qrs)
         + Cardinality({q \in Procs : calls[q].pc \in {"qr_expire", "qr_store"}})
         < MaxQrs
    /\ LET c == [IdleCall EXCEPT !.op = "createQr", !.coupon = coupon_id,
                                 !.member = member_id, !.at = now]
       IN  IF coupon_id \notin DOMAIN coupons
             THEN Finish(p, c, "ERR-IVD-VALUE")
           ELSE IF coupons[coupon_id].use_log_id # Null
             THEN Finish(p, c, "ERR-IVD-VALUE")
           ELSE IF coupons[coupon_id].expired_at < now
             THEN Finish(p, c, "ERR-IVD-VALUE")
           ELSE calls' = [calls EXCEPT ![p] = [c EXCEPT !.pc = "qr_expire"]]
    /\ UNCHANGED <<now, issue_logs, ledgerVars, coupons, register_logs,
                   use_logs, payment_qrs>>

\* CouponService.create_payment_qr, steps 1-2 (lookup and validity checks)
CreateQrCheck(p, coupon_id, member_id) ==
    /\ Ready(p)
    /\ Len(payment_qrs)
         + Cardinality({q \in Procs : calls[q].pc \in {"qr_expire", "qr_store"}})
         < MaxQrs
    /\ LET c == [IdleCall EXCEPT !.op = "createQr", !.coupon = coupon_id,
                                 !.member = member_id, !.at = now]
       IN  IF ~ (/\ coupon_id \in DOMAIN coupons
                 /\ coupons[coupon_id].register_id = member_id)
             THEN IF FindCouponById(coupon_id)
                    THEN Finish(p, c, "ERR-NOT-YOURS")
                    ELSE Finish(p, c, "ERR-IVD-VALUE")
           ELSE IF coupons[coupon_id].use_log_id # Null
             THEN Finish(p, c, "ERR-IVD-VALUE")
           ELSE IF coupons[coupon_id].expired_at < now
             THEN Finish(p, c, "ERR-IVD-VALUE")
           ELSE calls' = [calls EXCEPT ![p] = [c EXCEPT !.pc = "qr_expire"]]
    /\ UNCHANGED <<now, issue_logs, ledgerVars, coupons, register_logs,
                   use_logs, payment_qrs>>

\* expire_payment_qr_by_coupon_id: every still-valid token of the coupon dies
ExpirePaymentQrByCouponId(coupon_id) ==
    [k \in DOMAIN payment_qrs |->
        IF payment_qrs[k].coupon_id = coupon_id /\ Unexpired(payment_qrs[k])
          THEN [payment_qrs[k] EXCEPT !.expired_at = now]
          ELSE payment_qrs[k]]

\* CouponService.create_payment_qr, step 3
CreateQrExpire(p) ==
    /\ calls[p].pc = "qr_expire"
    /\ payment_qrs' = ExpirePaymentQrByCouponId(calls[p].coupon)
    /\ calls' = [calls EXCEPT ![p].pc = "qr_store"]
    /\ UNCHANGED <<now, issue_logs, ledgerVars, coupons, register_logs, use_logs>>

\* CouponService.create_payment_qr, steps 4-6: fresh code, expiry, insert
CreateQrStore(p) ==
    /\ calls[p].pc = "qr_store"
    /\ payment_qrs' = Append(payment_qrs,
          [payment_code |-> Len(payment_qrs) + 1,
           coupon_id |-> calls[p].coupon,
           expired_at |-> calls[p].at + QrTtl])
    /\ calls' = [calls EXCEPT ![p].pc = "qr_media",
                              ![p].token = Len(payment_qrs) + 1]
    /\ UNCHANGED <<now, issue_logs, ledgerVars, coupons, register_logs, use_logs>>

\* CouponService.create_payment_qr, steps 7-8: the media request
CreateQrMedia(p, media_ok) ==
    /\ calls[p].pc = "qr_media"
    /\ Finish(p, calls[p], IF media_ok THEN "OK" ELSE "ERR-QR-FAILED")
    /\ UNCHANGED <<now, issue_logs, ledgerVars, coupons, register_logs,
                   use_logs, payment_qrs>>

\* ---------------------------------------------------- PaymentSettlement
\* the lookup with no regard to the token's expiry
FindCouponByPaymentCode_NoExpiry(payment_code) ==
    IF payment_code \in DOMAIN payment_qrs
      THEN payment_qrs[payment_code].coupon_id
      ELSE Null

\* find_coupon_by_payment_code: the coupon of a known, unexpired token
FindCouponByPaymentCode(payment_code) ==
    IF /\ payment_code \in DOMAIN payment_qrs
       /\ Unexpired(payment_qrs[payment_code])
      THEN payment_qrs[payment_code].coupon_id
      ELSE Null

\* get_payment_transaction without its use_log_id check
ResolveResult_NoUsedCheck(payment_code) ==
    IF FindCouponByPaymentCode(payment_code) = Null THEN "ERR-IVD-VALUE" ELSE "OK"

\* CouponService.get_payment_transaction
ResolveResult(payment_code) ==
    IF FindCouponByPaymentCode(payment_code) = Null THEN "ERR-IVD-VALUE"
    ELSE IF coupons[FindCouponByPaymentCode(payment_code)].use_log_id # Null
      THEN "ERR-ALREADY-USED"
    ELSE "OK"

GetPaymentTransaction(p, payment_code) ==
    /\ Ready(p)
    /\ Finish(p, [IdleCall EXCEPT !.op = "resolve", !.code = payment_code,
                     !.coupon = FindCouponByPaymentCode(payment_code)],
              ResolveResult(payment_code))
    /\ UNCHANGED <<now, issue_logs, ledgerVars, coupons, register_logs,
                   use_logs, payment_qrs>>

\* confirm_payment_transaction: re-resolve, use log, coupon.use_log_id
ConfirmWrite(p, payment_code) ==
    /\ Ready(p)
    /\ LET cid == FindCouponByPaymentCode(payment_code)
           c == [IdleCall EXCEPT !.op = "confirm", !.code = payment_code,
                                 !.coupon = cid]
       IN  IF ResolveResult(payment_code) # "OK"
             THEN /\ Finish(p, c, ResolveResult(payment_code))
                  /\ UNCHANGED <<coupons, use_logs>>
             ELSE /\ use_logs' = Append(use_logs,
                        [coupon_id |-> cid])
                  /\ coupons' = [coupons EXCEPT
                        ![cid].use_log_id = Len(use_logs) + 1]
                  /\ calls' = [calls EXCEPT
                        ![p] = [c EXCEPT !.pc = "confirm_rollup"]]
    /\ UNCHANGED <<now, issue_logs, ledgerVars, register_logs, payment_qrs>>

\* a rollup that never marks the issue
RollupIssue_Skipped(issue_id) == issue_logs

\* a rollup satisfied by one used coupon
RollupIssue_AnyUsed(issue_id) ==
    IF /\ issue_id \in DOMAIN issue_logs
       /\ issue_logs[issue_id].row
       /\ \E c \in CouponsOfIssue(issue_id) : coupons[c].use_log_id # Null
      THEN [issue_logs EXCEPT ![issue_id].status = "COMPLETED"]
      ELSE issue_logs

\* the completion rollup: all coupons of the issue used => COMPLETED
RollupIssue(issue_id) ==
    IF /\ issue_id \in DOMAIN issue_logs
       /\ issue_logs[issue_id].row
       /\ \A c \in CouponsOfIssue(issue_id) : coupons[c].use_log_id # Null
      THEN [issue_logs EXCEPT ![issue_id].status = "COMPLETED"]
      ELSE issue_logs

ConfirmRollup(p) ==
    /\ calls[p].pc = "confirm_rollup"
    /\ issue_logs' = RollupIssue(coupons[calls[p].coupon].issue_id)
    /\ Finish(p, calls[p], "OK")
    /\ UNCHANGED <<now, ledgerVars, coupons, register_logs, use_logs,
                   payment_qrs>>

\* ---------------------------------------------------- IssueRequestLedger
Pending(status) == status \in {"PENDING", "PAYMENT_READY"}
Approved(status) == status \in {"ISSUED", "SHARED", "COMPLETED"}

IssueExists(i) == i \in DOMAIN issue_logs /\ issue_logs[i].row

\* PhoneService._normalize_phone: re.sub(r"\D", "", raw_phone), the form under
\* which the auth service stores the phone of a partner who signs up
PhoneService_normalize_phone(raw_phone) ==
    SelectSeq(raw_phone, LAMBDA ch : \E d \in DOMAIN Digits : Digits[d] = ch)

\* partner_phone.replace("-", "").replace(" ", "")
NormalizePhone(phone) == SelectSeq(phone, LAMBDA ch : ch \notin {"-", " "})

\* SELECT product_id FROM products WHERE product_id = .. AND partner_id = ..
ProductOwned(prods, product_id, partner_id) ==
    /\ product_id \in DOMAIN prods
    /\ prods[product_id].partner_id = partner_id

\* the checks CouponService makes on a product list before the repository
ProductsValid(prods) ==
    /\ prods # <<>>
    /\ \A k \in DOMAIN prods :
          /\ prods[k].count > 0
          /\ IF prods[k].is_new THEN prods[k].product_name # Null
                                ELSE prods[k].product_id # Null

\* CouponService.create_issue_request: the checks on the partner reference
PartnerValid(partner) ==
    IF partner.isNew THEN partner.partnerName # Null /\ partner.partnerPhone # <<>>
                     ELSE partner.partnerId # Null

\* create_issue_request, step 2: the product rows and REQUEST lines of a list
RECURSIVE RequestLines(_, _, _)
RequestLines(st, partner, prods) ==
    IF prods = <<>> \/ ~st.ok THEN st
    ELSE LET a == Head(prods) IN
      IF partner.isNew
        THEN IF a.is_new
               THEN RequestLines(
                      [st EXCEPT !.lines = Append(@,
                          [product_id |-> Null, product_name |-> a.product_name,
                           count |-> a.count])],
                      partner, Tail(prods))
               ELSE [st EXCEPT !.ok = FALSE]
        ELSE IF a.is_new
               THEN RequestLines(
                      [st EXCEPT
                         !.products = Append(@,
                            [partner_id |-> partner.partnerId,
                             product_name |-> a.product_name]),
                         !.lines = Append(@,
                            [product_id |-> Len(st.products) + 1,
                             product_name |-> Null, count |-> a.count])],
                      partner, Tail(prods))
             ELSE IF ProductOwned(st.products, a.product_id, partner.partnerId)
               THEN RequestLines(
                      [st EXCEPT !.lines = Append(@,
                          [product_id |-> a.product_id, product_name |-> Null,
                           count |-> a.count])],
                      partner, Tail(prods))
             ELSE [st EXCEPT !.ok = FALSE]

StageLines(issue_id, stage, lines) ==
    [k \in DOMAIN lines |->
        [issue_id |-> issue_id, product_id |-> lines[k].product_id,
         product_name |-> lines[k].product_name, stage |-> stage,
         count |-> lines[k].count]]

\* CouponService.create_issue_request and the repository's create_issue_request
CreateIssueRequest(p, vendor_id, title, partner, prods) ==
    /\ Ready(p)
    /\ Len(issue_logs) < MaxIssues
    /\ Cardinality({i \in DOMAIN issue_logs : issue_logs[i].vendor_id # Null})
         < MaxRequests
    /\ Len(products) + NewCount(prods) <= MaxProducts
    /\ LET c == [IdleCall EXCEPT !.op = "createRequest", !.member = vendor_id,
                                 !.alloc = prods]
           st == RequestLines([ok |-> TRUE, products |-> products, lines |-> <<>>],
                              partner, prods)
       IN  IF ~ProductsValid(prods) \/ ~PartnerValid(partner)
             THEN /\ Finish(p, c, "ERR-IVD-VALUE")
                  /\ UNCHANGED <<issue_logs, issue_products, products>>
           ELSE IF \/ ~partner.isNew
                      /\ partner.partnerId \notin DOMAIN partner_users
                   \/ ~st.ok
             THEN /\ Finish(p, c, "ERR-IVD-VALUE")
                  /\ products' = Uncommitted(products, st.products)
                  /\ UNCHANGED <<issue_logs, issue_products>>
             ELSE /\ issue_logs' = Append(issue_logs,
                        [row |-> TRUE, title |-> title, vendor_id |-> vendor_id,
                         partner_id |-> IF partner.isNew THEN Null
                                                         ELSE partner.partnerId,
                         partner_name |-> IF partner.isNew THEN partner.partnerName
                                                           ELSE Null,
                         partner_phone |-> IF partner.isNew
                                             THEN NormalizePhone(partner.partnerPhone)
                                             ELSE <<>>,
                         status |-> "PENDING", requested_at |-> now,
                         decided_at |-> Null,
                         requested_issue_count |-> SumCounts(prods),
                         approved_issue_count |-> 0,
                         product_kind_count |-> Len(prods), reason |-> Null,
                         vendor_deleted_at |-> Null, partner_deleted_at |-> Null])
                  /\ products' = st.products
                  /\ issue_products' = issue_products \o
                        StageLines(Len(issue_logs) + 1, "REQUEST", st.lines)
                  /\ Finish(p, [c EXCEPT !.issue = Len(issue_logs) + 1], "OK")
    /\ UNCHANGED <<now, accountVars, coupons, registryVars>>

\* ---------------------------------------------------- CouponMintingEngine
RECURSIVE SortedSeq(_)
SortedSeq(S) ==
    IF S = {} THEN <<>>
    ELSE LET m == CHOOSE x \in S : \A y \in S : x <= y
         IN  <<m>> \o SortedSeq(S \ {m})

\* the codes a minting transaction can settle on: each passes the check
\* SELECT coupon_id FROM coupons WHERE registration_code = .. against the rows
\* its session sees, its own inserts included
FreshCodes(n) ==
    {SortedSeq(S) : S \in {T \in SUBSET (Codes \ {coupons[k].registration_code :
                                                   k \in DOMAIN coupons}) :
                             Cardinality(T) = n}}

\* a minting loop that runs once per allocation, whatever its count
NewCoupons_OnePerLine(issue_id, product_id, partner_id, codes, count, at) ==
    [k \in 1..1 |->
        [issue_id |-> issue_id, product_id |-> product_id,
         partner_id |-> partner_id, registration_code |-> codes[k],
         register_id |-> Null, register_log_id |-> Null, use_log_id |-> Null,
         signature_code |-> Null,
         expired_at |-> at + ValidDays * DaySeconds]]

\* decide_issue / create_self_issue: the coupons minted for one allocation
NewCoupons(issue_id, product_id, partner_id, codes, count, at) ==
    [k \in 1..count |->
        [issue_id |-> issue_id, product_id |-> product_id,
         partner_id |-> partner_id, registration_code |-> codes[k],
         register_id |-> Null, register_log_id |-> Null, use_log_id |-> Null,
         signature_code |-> Null,
         expired_at |-> at + ValidDays * DaySeconds]]

\* UPDATE issue_products SET stage = 'APPROVE', product_id, count
\*  WHERE issue_id AND stage = 'REQUEST' AND <product match> LIMIT 1
\* (the row the index scan meets first: the lowest id)
ApproveLine(lines, issue_id, a, product_id) ==
    LET match == {k \in DOMAIN lines :
                    /\ lines[k].issue_id = issue_id
                    /\ lines[k].stage = "REQUEST"
                    /\ IF a.is_new
                         THEN /\ lines[k].product_id = Null
                              /\ lines[k].product_name = a.product_name
                         ELSE lines[k].product_id = a.product_id}
    IN  IF match = {} THEN lines
        ELSE LET k == CHOOSE x \in match : \A y \in match : x <= y
             IN  [lines EXCEPT ![k] = [@ EXCEPT !.stage = "APPROVE",
                                                !.product_id = product_id,
                                                !.count = a.count]]

\* decide_issue, step 2: the loop over the approved products
RECURSIVE DecideProducts(_, _, _, _, _, _)
DecideProducts(st, issue_id, partner_id, alloc, codes, at) ==
    IF alloc = <<>> \/ ~st.ok THEN st
    ELSE LET a == Head(alloc) IN
      IF \/ a.count <= 0
         \/ a.is_new /\ a.product_name = Null
         \/ ~a.is_new /\ a.product_id = Null
         \/ ~a.is_new /\ ~ProductOwned(st.products, a.product_id, partner_id)
        THEN [st EXCEPT !.ok = FALSE]
        ELSE LET prods == IF a.is_new
                            THEN Append(st.products,
                                   [partner_id |-> partner_id,
                                    product_name |-> a.product_name])
                            ELSE st.products
                 pid == IF a.is_new THEN Len(prods) ELSE a.product_id
             IN  DecideProducts(
                   [ok |-> TRUE, products |-> prods,
                    lines |-> ApproveLine(st.lines, issue_id, a, pid),
                    coupons |-> st.coupons \o
                       NewCoupons(issue_id, pid, partner_id, codes, a.count, at)],
                   issue_id, partner_id, Tail(alloc),
                   SubSeq(codes, a.count + 1, Len(codes)), at)

\* a lookup that accepts the issue of any partner
FindIssueForDecision_AnyPartner(issue_id, partner_id) ==
    /\ IssueExists(issue_id)
    /\ issue_logs[issue_id].partner_deleted_at = Null

\* decide_issue, step 1: the SELECT by issue_id and partner_id
FindIssueForDecision(issue_id, partner_id) ==
    /\ IssueExists(issue_id)
    /\ issue_logs[issue_id].partner_id = partner_id
    /\ issue_logs[issue_id].partner_deleted_at = Null

\* CouponService.decide_issue and decide_issue's step 1: the status read
DecideRead(p, issue_id, partner_id, is_approved, prods, reason) ==
    /\ Ready(p)
    /\ is_approved => /\ reason = Null
                      /\ Len(coupons) + SumCounts(prods) <= MaxCoupons
                      /\ Len(products) + NewCount(prods) <= MaxProducts
    /\ ~is_approved => prods = <<>>
    /\ LET c == [IdleCall EXCEPT !.op = "decide", !.issue = issue_id,
                                 !.member = partner_id, !.approve = is_approved,
                                 !.alloc = prods, !.code = reason]
       IN  IF IF is_approved THEN ~ProductsValid(prods) ELSE reason = Null
             THEN Finish(p, c, "ERR-IVD-VALUE")
           ELSE IF ~FindIssueForDecision(issue_id, partner_id)
             THEN Finish(p, c, "ERR-IVD-VALUE")
           ELSE IF ~Pending(issue_logs[issue_id].status)
             THEN Finish(p, c, "ERR-ALREADY-DECIDED")
           ELSE \E codes \in FreshCodes(SumCounts(prods)) :
                  calls' = [calls EXCEPT ![p] =
                     [c EXCEPT !.pc = "decide_commit", !.at = now,
                               !.codes = codes]]
    /\ UNCHANGED <<now, issue_logs, ledgerVars, coupons, registryVars>>

\* a rejection that drops the reason
RejectIssue_NoReason(r, at, reason) ==
    [r EXCEPT !.status = "REJECTED", !.decided_at = at]

\* decide_issue, step 3: the UPDATE of a rejection
RejectIssue(r, at, reason) ==
    [r EXCEPT !.status = "REJECTED", !.decided_at = at, !.reason = reason]

\* decide_issue, steps 2-3 and the commit
DecideCommit(p) ==
    /\ calls[p].pc = "decide_commit"
    /\ LET c == calls[p]
           st == DecideProducts(
                   [ok |-> TRUE, products |-> products, lines |-> issue_products,
                    coupons |-> coupons],
                   c.issue, c.member, c.alloc, c.codes, c.at)
       IN  IF c.approve
             THEN IF st.ok
                    THEN /\ products' = st.products
                         /\ issue_products' = st.lines
                         /\ coupons' = st.coupons
                         /\ issue_logs' =
                              IF IssueExists(c.issue)
                                THEN [issue_logs EXCEPT ![c.issue] =
                                       [@ EXCEPT
                                          !.status = "ISSUED",
                                          !.decided_at = c.at,
                                          !.approved_issue_count = SumCounts(c.alloc),
                                          !.product_kind_count = Len(c.alloc)]]
                                ELSE issue_logs
                         /\ Finish(p, c, "OK")
                    ELSE /\ calls' = [calls EXCEPT ![p] =
                                [IdleCall EXCEPT !.op = c.op, !.pc = "done",
                                                 !.result = "ERR-IVD-VALUE",
                                                 !.alloc = c.alloc]]
                         /\ products' = Uncommitted(products, st.products)
                         /\ issue_products' =
                               Uncommitted(issue_products, st.lines)
                         /\ coupons' = Uncommitted(coupons, st.coupons)
                         /\ UNCHANGED issue_logs
             ELSE /\ issue_logs' =
                       IF IssueExists(c.issue)
                         THEN [issue_logs EXCEPT ![c.issue] =
                                RejectIssue(@, c.at, c.code)]
                         ELSE issue_logs
                  /\ Finish(p, c, "OK")
                  /\ UNCHANGED <<issue_products, products, coupons>>
    /\ UNCHANGED <<now, accountVars, registryVars>>

\* create_self_issue, step 2: validate the list, insert the new products
RECURSIVE SelfProducts(_, _, _)
SelfProducts(st, partner_id, alloc) ==
    IF alloc = <<>> \/ ~st.ok THEN st
    ELSE LET a == Head(alloc) IN
      IF \/ a.count <= 0
         \/ a.is_new /\ a.product_name = Null
         \/ ~a.is_new /\ a.product_id = Null
         \/ ~a.is_new /\ ~ProductOwned(st.products, a.product_id, partner_id)
        THEN [st EXCEPT !.ok = FALSE]
        ELSE SelfProducts(
               [ok |-> TRUE,
                products |-> IF a.is_new
                               THEN Append(st.products,
                                      [partner_id |-> partner_id,
                                       product_name |-> a.product_name])
                               ELSE st.products,
                lines |-> Append(st.lines,
                   [product_id |-> IF a.is_new THEN Len(st.products) + 1
                                               ELSE a.product_id,
                    product_name |-> Null, count |-> a.count])],
               partner_id, Tail(alloc))

\* a minting loop that stops after the first product line
SelfCoupons_FirstLineOnly(lines, issue_id, partner_id, codes, at) ==
    IF lines = <<>> THEN <<>>
    ELSE NewCoupons(issue_id, Head(lines).product_id, partner_id, codes,
                    Head(lines).count, at)

\* create_self_issue, step 4: the coupons of every product line
RECURSIVE SelfCoupons(_, _, _, _, _)
SelfCoupons(lines, issue_id, partner_id, codes, at) ==
    IF lines = <<>> THEN <<>>
    ELSE NewCoupons(issue_id, Head(lines).product_id, partner_id, codes,
                    Head(lines).count, at)
         \o SelfCoupons(Tail(lines), issue_id, partner_id,
                        SubSeq(codes, Head(lines).count + 1, Len(codes)), at)

\* CouponService.create_self_issue and create_self_issue's step 1
SelfIssueRead(p, partner_id, title, prods) ==
    /\ Ready(p)
    /\ Len(issue_logs) + Cardinality({q \in Procs : calls[q].pc = "self_commit"})
         < MaxIssues
    /\ Len(coupons) + SumCounts(prods) <= MaxCoupons
    /\ Len(products) + NewCount(prods) <= MaxProducts
    /\ LET c == [IdleCall EXCEPT !.op = "selfIssue", !.member = partner_id,
                                 !.alloc = prods, !.code = title]
       IN  IF ~ProductsValid(prods) \/ partner_id \notin DOMAIN partner_users
             THEN Finish(p, c, "ERR-IVD-VALUE")
             ELSE \E codes \in FreshCodes(SumCounts(prods)) :
                    calls' = [calls EXCEPT ![p] =
                       [c EXCEPT !.pc = "self_commit", !.at = now,
                                 !.codes = codes]]
    /\ UNCHANGED <<now, issue_logs, ledgerVars, coupons, registryVars>>

\* create_self_issue, steps 2-4 and the commit
SelfIssueCommit(p) ==
    /\ calls[p].pc = "self_commit"
    /\ LET c == calls[p]
           st == SelfProducts([ok |-> TRUE, products |-> products, lines |-> <<>>],
                              c.member, c.alloc)
           issue_id == Len(issue_logs) + 1
       IN  IF st.ok
             THEN /\ products' = st.products
                  /\ issue_logs' = Append(issue_logs,
                        [row |-> TRUE, title |-> c.code, vendor_id |-> Null,
                         partner_id |-> c.member, partner_name |-> Null,
                         partner_phone |-> <<>>, status |-> "ISSUED",
                         requested_at |-> c.at, decided_at |-> c.at,
                         requested_issue_count |-> SumCounts(c.alloc),
                         approved_issue_count |-> SumCounts(c.alloc),
                         product_kind_count |-> Len(c.alloc), reason |-> Null,
                         vendor_deleted_at |-> Null, partner_deleted_at |-> Null])
                  /\ issue_products' = issue_products \o
                        StageLines(issue_id, "APPROVE", st.lines)
                  /\ coupons' = coupons \o
                        SelfCoupons(st.lines, issue_id, c.member, c.codes, c.at)
                  /\ Finish(p, [c EXCEPT !.issue = issue_id], "OK")
             ELSE /\ Finish(p, c, "ERR-IVD-VALUE")
                  /\ products' = Uncommitted(products, st.products)
                  /\ UNCHANGED <<issue_logs, issue_products, coupons>>
    /\ UNCHANGED <<now, accountVars, registryVars>>

\* ------------------------------------------------------ phone auth tokens
\* PhoneService._issue_phone_auth_token at the end of verify_phone_code: a
\* fresh token saved with its phone and expiry
IssuePhoneAuthToken(p, raw_phone) ==
    /\ Ready(p)
    /\ Len(phone_auth_tokens) < MaxTokens
    /\ phone_auth_tokens' = Append(phone_auth_tokens,
          [row |-> TRUE, phone |-> PhoneService_normalize_phone(raw_phone),
           expires_at |-> now + PhoneAuthTokenTtl])
    /\ Finish(p, [IdleCall EXCEPT !.op = "verifyCode",
                                  !.token = Len(phone_auth_tokens) + 1], "OK")
    /\ UNCHANGED <<now, partner_users, issue_logs, issue_products, products,
                   coupons, registryVars>>

\* PhoneService.consume_phone_auth_token and SQLPhoneAuthTokenStore
\* .consume_token up to its SELECT
ConsumeTokenSelect(p, token) ==
    /\ Ready(p)
    /\ LET c == [IdleCall EXCEPT !.op = "consumeToken", !.token = token]
       IN  IF token = Null
             THEN Finish(p, c, "ERR-MISSING-PHONE-AUTH")
           ELSE IF ~ (/\ token \in DOMAIN phone_auth_tokens
                      /\ phone_auth_tokens[token].row)
             THEN Finish(p, c, "ERR-IVD-PARAM")
           ELSE calls' = [calls EXCEPT ![p] =
                  [c EXCEPT !.pc = "consume_delete",
                            !.at = phone_auth_tokens[token].expires_at]]
    /\ UNCHANGED <<now, accountVars, issue_logs, issue_products, products,
                   coupons, registryVars>>

\* consume_token's DELETE and commit, the entry built from the row read, and
\* consume_phone_auth_token's expiry check
ConsumeTokenDelete(p) ==
    /\ calls[p].pc = "consume_delete"
    /\ phone_auth_tokens' =
          [phone_auth_tokens EXCEPT ![calls[p].token].row = FALSE]
    /\ Finish(p, calls[p],
              IF calls[p].at < now THEN "ERR-PHONE-AUTH-EXPIRED" ELSE "OK")
    /\ UNCHANGED <<now, partner_users, issue_logs, issue_products, products,
                   coupons, registryVars>>

\* ------------------------------------------------------- partner sign-up
\* JoinService.join_partner, steps 1-3: the phone of the consumed token, the
\* duplicate check and the new partner row
JoinPartner(p, raw_phone) ==
    /\ Ready(p)
    /\ Len(partner_users) < NumPartners + MaxJoins
    /\ LET phone == PhoneService_normalize_phone(raw_phone)
           c == [IdleCall EXCEPT !.op = "joinPartner"]
       IN  IF \E k \in DOMAIN partner_users : partner_users[k].phone = phone
             THEN /\ Finish(p, c, "ERR-DUP-VALUE")
                  /\ UNCHANGED partner_users
             ELSE /\ partner_users' = Append(partner_users, [phone |-> phone])
                  /\ calls' = [calls EXCEPT ![p] =
                        [c EXCEPT !.pc = "map_issues",
                                  !.member = Len(partner_users) + 1]]
    /\ UNCHANGED <<now, phone_auth_tokens, issue_logs, issue_products, products,
                   coupons, registryVars>>

\* the UPDATE's rows, were partner_phone not compared
UnmappedIssues_AnyPhone(partner_phone) ==
    {i \in DOMAIN issue_logs :
        issue_logs[i].row /\ issue_logs[i].partner_id = Null}

\* map_partner_to_issues: the rows of UPDATE issue_logs .. WHERE
\* partner_phone = :partner_phone AND partner_id IS NULL
UnmappedIssues(partner_phone) ==
    {i \in DOMAIN issue_logs :
        /\ issue_logs[i].row
        /\ issue_logs[i].partner_id = Null
        /\ issue_logs[i].partner_phone = partner_phone}

\* map_partner_to_issues: the lines of the partner's issues that carry a
\* product name and no product_id
NameOnlyLines(logs, partner_id) ==
    {l \in DOMAIN issue_products :
        /\ issue_products[l].issue_id \in DOMAIN logs
        /\ logs[issue_products[l].issue_id].row
        /\ logs[issue_products[l].issue_id].partner_id = partner_id
        /\ issue_products[l].product_id = Null
        /\ issue_products[l].product_name # Null}

\* join_partner, step 5: map_partner_to_issues and its commit
MapPartnerToIssues(p) ==
    /\ calls[p].pc = "map_issues"
    /\ LET partner_id == calls[p].member
           partner_phone == partner_users[partner_id].phone
           logs == [i \in DOMAIN issue_logs |->
                      IF i \in UnmappedIssues(partner_phone)
                        THEN [issue_logs[i] EXCEPT !.partner_id = partner_id]
                        ELSE issue_logs[i]]
           lines == NameOnlyLines(logs, partner_id)
           Rank(l) == Cardinality({j \in lines : j <= l})
       IN  /\ issue_logs' = logs
           /\ products' = products \o
                 [n \in 1..Cardinality(lines) |->
                    [partner_id |-> partner_id,
                     product_name |->
                        issue_products[CHOOSE l \in lines : Rank(l) = n]
                          .product_name]]
           /\ issue_products' = [l \in DOMAIN issue_products |->
                 IF l \in lines
                   THEN [issue_products[l] EXCEPT
                           !.product_id = Len(products) + Rank(l)]
                   ELSE issue_products[l]]
    /\ Finish(p, calls[p], "OK")
    /\ UNCHANGED <<now, accountVars, coupons, registryVars>>

\* ------------------------------------------------------------- issue query
\* find_issues_by_user: the ids of the issues a vendor or a partner is shown
FindIssuesByUser(subject_type, subject_id) ==
    {i \in DOMAIN issue_logs :
        /\ issue_logs[i].row
        /\ IF subject_type = "member"
             THEN /\ issue_logs[i].vendor_id = subject_id
                  /\ issue_logs[i].vendor_deleted_at = Null
             ELSE /\ issue_logs[i].partner_id = subject_id
                  /\ issue_logs[i].partner_deleted_at = Null}

\* ------------------------------------------------------------ issue delete
\* delete_issues_by_user: the SELECT and the classification of the rows read
DeletePlan(issue_ids, subject_type, subject_id) ==
    LET found == {i \in issue_ids : IssueExists(i)}
        live == {i \in found :
                   IF subject_type = "member"
                     THEN issue_logs[i].vendor_deleted_at = Null
                     ELSE issue_logs[i].partner_deleted_at = Null}
        valid == {i \in live :
                    IF subject_type = "member"
                      THEN issue_logs[i].vendor_id = subject_id
                      ELSE issue_logs[i].partner_id = subject_id}
    IN  [ids |-> found,
         hard |-> {i \in valid : subject_type = "member"
                                 /\ Pending(issue_logs[i].status)},
         vendor |-> {i \in valid : subject_type = "member"
                                   /\ Approved(issue_logs[i].status)},
         partner |-> {i \in valid : subject_type = "partner"
                                    /\ Approved(issue_logs[i].status)},
         reject |-> {i \in valid : subject_type = "partner"
                                   /\ Pending(issue_logs[i].status)},
         invalid |-> live \ valid]

DeleteRead(p, issue_ids, subject_type, subject_id) ==
    /\ Ready(p)
    /\ LET c == [IdleCall EXCEPT !.op = "delete", !.member = subject_id,
                                 !.code = IF subject_type = "member" THEN 1 ELSE 2,
                                 !.at = now]
       IN  IF issue_ids = {}
             THEN Finish(p, c, "OK")
             ELSE calls' = [calls EXCEPT ![p] =
                    [c EXCEPT !.pc = "delete_commit",
                              !.del = DeletePlan(issue_ids, subject_type,
                                                 subject_id)]]
    /\ UNCHANGED <<now, issue_logs, ledgerVars, coupons, registryVars>>

\* the statements with the first one hiding the row from the vendor only
DeleteRow_HardAsSoft(r, i, plan, at) ==
    IF i \in (plan.hard \cup plan.vendor) /\ r.vendor_deleted_at = Null
      THEN [r EXCEPT !.vendor_deleted_at = at]
    ELSE IF i \in plan.partner /\ r.partner_deleted_at = Null
      THEN [r EXCEPT !.partner_deleted_at = at]
    ELSE IF i \in plan.reject /\ r.partner_deleted_at = Null
      THEN [r EXCEPT !.status = "REJECTED", !.partner_deleted_at = at,
                     !.decided_at = at]
    ELSE r

\* the statements with the fourth one hiding the row without rejecting it
DeleteRow_HideOnly(r, i, plan, at) ==
    IF i \in plan.hard THEN [r EXCEPT !.row = FALSE]
    ELSE IF i \in plan.vendor /\ r.vendor_deleted_at = Null
      THEN [r EXCEPT !.vendor_deleted_at = at]
    ELSE IF i \in (plan.partner \cup plan.reject) /\ r.partner_deleted_at = Null
      THEN [r EXCEPT !.partner_deleted_at = at]
    ELSE r

\* the four statements of delete_issues_by_user applied to one row
DeleteRow(r, i, plan, at) ==
    IF i \in plan.hard THEN [r EXCEPT !.row = FALSE]
    ELSE IF i \in plan.vendor /\ r.vendor_deleted_at = Null
      THEN [r EXCEPT !.vendor_deleted_at = at]
    ELSE IF i \in plan.partner /\ r.partner_deleted_at = Null
      THEN [r EXCEPT !.partner_deleted_at = at]
    ELSE IF i \in plan.reject /\ r.partner_deleted_at = Null
      THEN [r EXCEPT !.status = "REJECTED", !.partner_deleted_at = at,
                     !.decided_at = at]
    ELSE r

\* delete_issues_by_user: the DELETE / UPDATE statements and the commit, then
\* CouponService.delete_issues_by_user's check of the invalid ids
DeleteCommit(p) ==
    /\ calls[p].pc = "delete_commit"
    /\ issue_logs' = [i \in DOMAIN issue_logs |->
          IF issue_logs[i].row
            THEN DeleteRow(issue_logs[i], i, calls[p].del, calls[p].at)
            ELSE issue_logs[i]]
    /\ Finish(p, calls[p],
              IF calls[p].del.invalid # {} THEN "ERR-NOT-YOURS" ELSE "OK")
    /\ UNCHANGED <<now, ledgerVars, coupons, registryVars>>

\* ------------------------------------------------------------ environment
\* now_kst() advances
Tick ==
    /\ now + TickStep <= MaxTime
    /\ now' = now + TickStep
    /\ UNCHANGED <<issue_logs, ledgerVars, coupons, register_logs, use_logs,
                   payment_qrs, calls>>

\* ------------------------------------------------------------------ Init
InitPartners == [k \in 1..NumPartners |-> [phone |-> <<"0", Digits[k + 1]>>]]

\* every partner starts with one product of its own: product k of partner k
InitProducts == [k \in 1..NumPartners |-> [partner_id |-> k, product_name |-> k]]

\* the system after deployment: partners and their products, nothing issued
Init ==
    /\ now = Epoch
    /\ partner_users = InitPartners
    /\ phone_auth_tokens = <<>>
    /\ products = InitProducts
    /\ issue_logs = <<>>
    /\ issue_products = <<>>
    /\ coupons = <<>>
    /\ register_logs = <<>>
    /\ use_logs = <<>>
    /\ payment_qrs = <<>>
    /\ calls = [p \in Procs |-> IdleCall]

\* an issue partner 1 approved ValidDays ago, less InitCouponTtl seconds, for
\* NumInitCoupons units of its product
InitIssue ==
    [row |-> TRUE, title |-> 1, vendor_id |-> 1, partner_id |-> 1,
     partner_name |-> Null, partner_phone |-> <<>>, status |-> "ISSUED",
     requested_at |-> InitCouponTtl - ValidDays * DaySeconds,
     decided_at |-> InitCouponTtl - ValidDays * DaySeconds,
     requested_issue_count |-> NumInitCoupons,
     approved_issue_count |-> NumInitCoupons, product_kind_count |-> 1,
     reason |-> Null, vendor_deleted_at |-> Null, partner_deleted_at |-> Null]

InitCoupon(k) ==
    [issue_id |-> 1, product_id |-> 1, partner_id |-> 1,
     registration_code |-> k, register_id |-> Null, register_log_id |-> Null,
     use_log_id |-> Null, signature_code |-> Null,
     expired_at |-> InitCouponTtl]

\* the minted batch, no coupon claimed yet
InitRegistry ==
    /\ now = Epoch
    /\ partner_users = InitPartners
    /\ phone_auth_tokens = <<>>
    /\ products = InitProducts
    /\ issue_logs = <<InitIssue>>
    /\ issue_products = <<[issue_id |-> 1, product_id |-> 1,
                           product_name |-> Null, stage |-> "APPROVE",
                           count |-> NumInitCoupons]>>
    /\ coupons = [k \in 1..NumInitCoupons |-> InitCoupon(k)]
    /\ register_logs = <<>>
    /\ use_logs = <<>>
    /\ payment_qrs = <<>>
    /\ calls = [p \in Procs |-> IdleCall]

\* the minted batch and one coupon more: coupon 1 claimed by consumer 1 and
\* redeemed, the others unclaimed
InitWallet ==
    /\ now = Epoch
    /\ partner_users = InitPartners
    /\ phone_auth_tokens = <<>>
    /\ products = InitProducts
    /\ issue_logs = <<InitIssue>>
    /\ issue_products = <<[issue_id |-> 1, product_id |-> 1,
                           product_name |-> Null, stage |-> "APPROVE",
                           count |-> NumInitCoupons + 1]>>
    /\ coupons = [k \in 1..(NumInitCoupons + 1) |->
          IF k = 1
            THEN [InitCoupon(k) EXCEPT !.register_id = 1, !.register_log_id = 1,
                                       !.signature_code = 1, !.use_log_id = 1]
            ELSE InitCoupon(k)]
    /\ register_logs = <<[register_user_id |-> 1, deleted_at |-> Null]>>
    /\ use_logs = <<[coupon_id |-> 1]>>
    /\ payment_qrs = <<>>
    /\ calls = [p \in Procs |-> IdleCall]

\* the minted batch, coupon k claimed by consumer ((k - 1) % NumMembers) + 1
InitPayment ==
    /\ now = Epoch
    /\ partner_users = InitPartners
    /\ phone_auth_tokens = <<>>
    /\ products = InitProducts
    /\ issue_logs = <<InitIssue>>
    /\ issue_products = <<[issue_id |-> 1, product_id |-> 1,
                           product_name |-> Null, stage |-> "APPROVE",
                           count |-> NumInitCoupons]>>
    /\ coupons = [k \in 1..NumInitCoupons |->
          [InitCoupon(k) EXCEPT !.register_id = ((k - 1) % NumMembers) + 1,
                                !.register_log_id = k, !.signature_code = 1]]
    /\ register_logs = [k \in 1..NumInitCoupons |->
          [register_user_id |-> ((k - 1) % NumMembers) + 1, deleted_at |-> Null]]
    /\ use_logs = <<>>
    /\ payment_qrs = <<>>
    /\ calls = [p \in Procs |-> IdleCall]

\* the claimed batch, each coupon's consumer holding a fresh payment token
InitSettle ==
    /\ now = Epoch
    /\ partner_users = InitPartners
    /\ phone_auth_tokens = <<>>
    /\ products = InitProducts
    /\ issue_logs = <<InitIssue>>
    /\ issue_products = <<[issue_id |-> 1, product_id |-> 1,
                           product_name |-> Null, stage |-> "APPROVE",
                           count |-> NumInitCoupons]>>
    /\ coupons = [k \in 1..NumInitCoupons |->
          [InitCoupon(k) EXCEPT !.register_id = ((k - 1) % NumMembers) + 1,
                                !.register_log_id = k, !.signature_code = 1]]
    /\ register_logs = [k \in 1..NumInitCoupons |->
          [register_user_id |-> ((k - 1) % NumMembers) + 1, deleted_at |-> Null]]
    /\ use_logs = <<>>
    /\ payment_qrs = [k \in 1..NumInitCoupons |->
          [payment_code |-> k, coupon_id |-> k, expired_at |-> Epoch + QrTtl]]
    /\ calls = [p \in Procs |-> IdleCall]

\* a request of vendor 1 waiting for a decision
PendingRequest(partner_id, partner_phone, count, kinds) ==
    [InitIssue EXCEPT !.status = "PENDING", !.requested_at = Epoch,
                      !.decided_at = Null, !.partner_id = partner_id,
                      !.partner_name = IF partner_id = Null THEN 1 ELSE Null,
                      !.partner_phone = partner_phone,
                      !.requested_issue_count = count,
                      !.approved_issue_count = 0,
                      !.product_kind_count = kinds]

\* vendor 1 has sent three requests: two products of a shop with phone 07,
\* one product of a shop with phone 077, neither shop registered yet, and
\* one unit of partner 1's product
InitJoin ==
    /\ now = Epoch
    /\ partner_users = InitPartners
    /\ phone_auth_tokens = <<>>
    /\ products = InitProducts
    /\ issue_logs = <<PendingRequest(Null, <<"0", "7">>, 2, 2),
                      PendingRequest(Null, <<"0", "7", "7">>, 1, 1),
                      PendingRequest(1, <<>>, 1, 1)>>
    /\ issue_products =
          <<[issue_id |-> 1, product_id |-> Null, product_name |-> 1,
             stage |-> "REQUEST", count |-> 1],
            [issue_id |-> 1, product_id |-> Null, product_name |-> 2,
             stage |-> "REQUEST", count |-> 1],
            [issue_id |-> 2, product_id |-> Null, product_name |-> 1,
             stage |-> "REQUEST", count |-> 1],
            [issue_id |-> 3, product_id |-> 1, product_name |-> Null,
             stage |-> "REQUEST", count |-> 1]>>
    /\ coupons = <<>>
    /\ register_logs = <<>>
    /\ use_logs = <<>>
    /\ payment_qrs = <<>>
    /\ calls = [p \in Procs |-> IdleCall]

\* vendor 1 has asked partner 1 for one unit of its product; nothing decided
InitLedgerRace ==
    /\ now = Epoch
    /\ partner_users = InitPartners
    /\ phone_auth_tokens = <<>>
    /\ products = InitProducts
    /\ issue_logs = <<[InitIssue EXCEPT !.status = "PENDING", !.requested_at = Epoch,
                                       !.decided_at = Null,
                                       !.requested_issue_count = 1,
                                       !.approved_issue_count = 0]>>
    /\ issue_products = <<[issue_id |-> 1, product_id |-> 1,
                           product_name |-> Null, stage |-> "REQUEST",
                           count |-> 1]>>
    /\ coupons = <<>>
    /\ register_logs = <<>>
    /\ use_logs = <<>>
    /\ payment_qrs = <<>>
    /\ calls = [p \in Procs |-> IdleCall]

\* ---------------------------------------------------------------- inputs
CouponIds == 1..(Len(coupons) + 1)
RegistrationCodes == 1..(Len(coupons) + 1)
PaymentCodes == 1..(Len(payment_qrs) + 1)
IssueIds == 1..(Len(issue_logs) + 1)

NewLine(name, n) ==
    [is_new |-> TRUE, product_id |-> Null, product_name |-> name, count |-> n]
OldLine(id, n) ==
    [is_new |-> FALSE, product_id |-> id, product_name |-> Null, count |-> n]

ProductLines ==
    {NewLine(1, n) : n \in 1..MaxCount}
      \cup {OldLine(i, n) : i \in 1..NumPartners, n \in 1..MaxCount}
      \cup {OldLine(1, 0)}

\* lists of up to MaxLines lines asking for up to MaxCount units in all
ProductLists ==
    {l \in UNION {[1..n -> ProductLines] : n \in 0..MaxLines} :
        SumCounts(l) <= MaxCount}

ExistingPartner(k) ==
    [isNew |-> FALSE, partnerId |-> k, partnerName |-> Null, partnerPhone |-> <<>>]

PartnerRefs ==
    {ExistingPartner(k) : k \in Partners}
      \cup {[isNew |-> TRUE, partnerId |-> Null, partnerName |-> 1,
             partnerPhone |-> <<"0", "-", "7">>]}

\* ------------------------------------------------------------------ Next
NextRegistry ==
    \/ \E p \in Procs, c \in CouponIds, rc \in RegistrationCodes, s \in Sigs,
          m \in Members : RegisterRead(p, c, rc, s, m)
    \/ \E p \in Procs : RegisterWrite(p)
    \/ \E p \in Procs, rc \in RegistrationCodes, m \in Members :
          GetCouponByRegistrationCode(p, rc, m)

\* the batches a consumer sends: ids taken from a wallet listing
CouponBatches == (SUBSET DOMAIN coupons) \ {{}}

\* the reads are worker 1's; claims and deletions come from every worker
NextWallet ==
    \/ \E p \in Procs, c \in DOMAIN coupons, s \in Sigs, m \in Members :
          RegisterRead(p, c, coupons[c].registration_code, s, m)
    \/ \E p \in Procs : RegisterWrite(p)
    \/ \E m \in Members : GetCouponsByMember(1, m)
    \/ \E c \in CouponIds, m \in Members : GetCouponDetail(1, c, m)
    \/ \E p \in Procs, ids \in CouponBatches, m \in Members :
          DeleteCouponsValidate(p, ids, m)
    \/ \E p \in Procs : MarkCouponsAsDeleted(p)

NextPayment ==
    \/ \E p \in Procs, c \in CouponIds, m \in Members : CreateQrCheck(p, c, m)
    \/ \E p \in Procs : CreateQrExpire(p)
    \/ \E p \in Procs : CreateQrStore(p)
    \/ \E p \in Procs, ok \in BOOLEAN : CreateQrMedia(p, ok)
    \/ \E p \in Procs, pc \in PaymentCodes : GetPaymentTransaction(p, pc)
    \/ \E p \in Procs, pc \in PaymentCodes : ConfirmWrite(p, pc)
    \/ \E p \in Procs : ConfirmRollup(p)
    \/ Tick

\* consumers discarding claimed coupons and asking for payment tokens
NextWalletQr ==
    \/ \E p \in Procs, ids \in CouponBatches, m \in Members :
          DeleteCouponsValidate(p, ids, m)
    \/ \E p \in Procs : MarkCouponsAsDeleted(p)
    \/ \E p \in Procs, c \in CouponIds, m \in Members : CreateQrCheck(p, c, m)
    \/ \E p \in Procs : CreateQrExpire(p)
    \/ \E p \in Procs : CreateQrStore(p)
    \/ \E p \in Procs, ok \in BOOLEAN : CreateQrMedia(p, ok)
    \/ Tick

\* the settlement terminal: resolve() and confirm() on issued tokens
NextSettle ==
    \/ \E p \in Procs, pc \in PaymentCodes : GetPaymentTransaction(p, pc)
    \/ \E p \in Procs, pc \in PaymentCodes : ConfirmWrite(p, pc)
    \/ \E p \in Procs : ConfirmRollup(p)
    \/ Tick

\* one request at a time: every vendor, partner reference and product list;
\* partner references with a field missing or naming no partner
RequestPartnerRefs ==
    PartnerRefs
      \cup {ExistingPartner(Null), ExistingPartner(NumPartners + 1),
            [isNew |-> TRUE, partnerId |-> Null, partnerName |-> Null,
             partnerPhone |-> <<"0", "-", "7">>],
            [isNew |-> TRUE, partnerId |-> Null, partnerName |-> 1,
             partnerPhone |-> <<>>]}

\* product lists, one with a line that lacks its product reference included
RequestLists ==
    ProductLists \cup {<<OldLine(Null, 1)>>, <<NewLine(Null, 1)>>,
                       <<NewLine(1, 1), OldLine(Null, 1)>>}

\* the characters a client can put in a phone string: digits, the two
\* separators create_issue_request strips, and the prefix of an
\* international number
PhoneChars == {"0", "7", "-", " ", "+"}

Phones == UNION {[1..n -> PhoneChars] : n \in 1..MaxPhoneLen}

\* requests naming a not-yet-registered partner by name and phone
NextPhone ==
    \E phone \in Phones, l \in {<<NewLine(1, n)>> : n \in 1..MaxCount} :
        CreateIssueRequest(1, 1, 1,
            [isNew |-> TRUE, partnerId |-> Null, partnerName |-> 1,
             partnerPhone |-> phone], l)

\* partner 1 is the one that issues to itself
NextLedger ==
    \/ \E v \in Vendors, pr \in RequestPartnerRefs, l \in RequestLists :
          CreateIssueRequest(1, v, 1, pr, l)
    \/ \E i \in IssueIds, k \in Partners, l \in ProductLists :
          DecideRead(1, i, k, TRUE, l, Null)
    \/ \E i \in IssueIds, k \in Partners, r \in {Null, 1} :
          DecideRead(1, i, k, FALSE, <<>>, r)
    \/ DecideCommit(1)
    \/ \E l \in ProductLists : SelfIssueRead(1, 1, 1, l)
    \/ SelfIssueCommit(1)
    \/ \E ids \in SUBSET IssueIds, m \in Members : DeleteRead(1, ids, "member", m)
    \/ \E ids \in SUBSET IssueIds, k \in Partners : DeleteRead(1, ids, "partner", k)
    \/ DeleteCommit(1)

\* concurrent requests of vendor 1 and partner 1 about the pending issue and
\* one unit of product 1
NextLedgerRace ==
    \/ \E p \in Procs, approve \in BOOLEAN :
          DecideRead(p, 1, 1, approve, IF approve THEN <<OldLine(1, 1)>> ELSE <<>>,
                     IF approve THEN Null ELSE 1)
    \/ \E p \in Procs : DecideCommit(p)
    \/ \E p \in Procs : SelfIssueRead(p, 1, 1, <<OldLine(1, 1)>>)
    \/ \E p \in Procs : SelfIssueCommit(p)
    \/ \E p \in Procs : DeleteRead(p, {1}, "member", 1)
    \/ \E p \in Procs : DeleteRead(p, {1}, "partner", 1)
    \/ \E p \in Procs : DeleteCommit(p)

Next ==
    \/ \E p \in Procs, v \in Vendors, pr \in RequestPartnerRefs,
          l \in RequestLists :
          CreateIssueRequest(p, v, 1, pr, l)
    \/ \E p \in Procs, i \in IssueIds, k \in Partners, l \in ProductLists :
          DecideRead(p, i, k, TRUE, l, Null)
    \/ \E p \in Procs, i \in IssueIds, k \in Partners, r \in {Null, 1} :
          DecideRead(p, i, k, FALSE, <<>>, r)
    \/ \E p \in Procs : DecideCommit(p)
    \/ \E p \in Procs, k \in Partners, l \in ProductLists : SelfIssueRead(p, k, 1, l)
    \/ \E p \in Procs : SelfIssueCommit(p)
    \/ \E p \in Procs, ids \in SUBSET IssueIds, m \in Members :
          DeleteRead(p, ids, "member", m)
    \/ \E p \in Procs, ids \in SUBSET IssueIds, k \in Partners :
          DeleteRead(p, ids, "partner", k)
    \/ \E p \in Procs : DeleteCommit(p)
    \/ NextRegistry
    \/ NextWallet
    \/ NextPayment

Spec == Init /\ [][Next]_vars
SpecLedger == Init /\ [][NextLedger]_vars
SpecLedgerRace == InitLedgerRace /\ [][NextLedgerRace]_vars
SpecRegistry == InitRegistry /\ [][NextRegistry]_vars
SpecPayment == InitPayment /\ [][NextPayment]_vars
SpecWallet == InitWallet /\ [][NextWallet]_vars
SpecWalletQr == InitPayment /\ [][NextWalletQr]_vars
SpecPhone == Init /\ [][NextPhone]_vars
SpecSettle == InitSettle /\ [][NextSettle]_vars

\* a coupon's way from the minted batch to redemption: claim, payment
\* token, confirmation
NextRedeem ==
    \/ \E p \in Procs, c \in DOMAIN coupons, m \in Members :
          RegisterRead(p, c, coupons[c].registration_code, 1, m)
    \/ \E p \in Procs : RegisterWrite(p)
    \/ \E p \in Procs, c \in CouponIds, m \in Members : CreateQrCheck(p, c, m)
    \/ \E p \in Procs : CreateQrExpire(p)
    \/ \E p \in Procs : CreateQrStore(p)
    \/ \E p \in Procs, ok \in BOOLEAN : CreateQrMedia(p, ok)
    \/ \E p \in Procs, pc \in PaymentCodes : ConfirmWrite(p, pc)
    \/ \E p \in Procs : ConfirmRollup(p)

SpecRedeem == InitRegistry /\ [][NextRedeem]_vars

\* the phones shops sign up with: the two the pending requests name and the
\* one partner 1 holds
JoinPhones == {<<"0", "7">>, <<"0", "7", "7">>, <<"0", "1">>}

\* shops signing up while requests wait; every partner, old or new, decides
NextJoin ==
    \/ \E p \in Procs, phone \in JoinPhones : JoinPartner(p, phone)
    \/ \E p \in Procs : MapPartnerToIssues(p)
    \/ \E p \in Procs, i \in DOMAIN issue_logs, k \in DOMAIN partner_users,
          id \in DOMAIN products :
          DecideRead(p, i, k, TRUE, <<OldLine(id, 1)>>, Null)
    \/ \E p \in Procs, i \in DOMAIN issue_logs, k \in DOMAIN partner_users :
          DecideRead(p, i, k, FALSE, <<>>, 1)
    \/ \E p \in Procs : DecideCommit(p)

SpecJoin == InitJoin /\ [][NextJoin]_vars

\* verified phones and the requests that present their tokens
NextPhoneAuth ==
    \/ \E p \in Procs, phone \in JoinPhones : IssuePhoneAuthToken(p, phone)
    \/ \E p \in Procs, token \in 0..(Len(phone_auth_tokens) + 1) :
          ConsumeTokenSelect(p, token)
    \/ \E p \in Procs : ConsumeTokenDelete(p)
    \/ Tick

SpecPhoneAuth == Init /\ [][NextPhoneAuth]_vars

\* ================================================================ claims
Done(p, op) == calls[p].pc = "done" /\ calls[p].op = op
Succeeded(p, op) == Done(p, op) /\ calls[p].result = "OK"

ActiveTokens(c) ==
    {k \in DOMAIN payment_qrs :
        payment_qrs[k].coupon_id = c /\ Unexpired(payment_qrs[k])}

UseLogsOf(c) == {u \in DOMAIN use_logs : use_logs[u].coupon_id = c}

AllUsed(i) == \A c \in CouponsOfIssue(i) : coupons[c].use_log_id # Null

SumApproved(i) ==
    SumCounts(SelectSeq(issue_products,
                        LAMBDA l : l.issue_id = i /\ l.stage = "APPROVE"))

\* C1: of two register() calls for one unregistered coupon by different
\* consumers, each with the right code, exactly one succeeds, and the coupon's
\* register_id is then the id of the caller that succeeded: a register() that
\* has answered OK holds the coupon, and no other consumer's register() has
\* answered OK for it too.
C1_RegisterRace ==
    \A p \in Procs :
        Succeeded(p, "register") =>
            /\ coupons[calls[p].coupon].register_id = calls[p].member
            /\ \A q \in Procs \ {p} :
                  ~ (/\ Succeeded(q, "register")
                     /\ calls[q].coupon = calls[p].coupon
                     /\ calls[q].member # calls[p].member)

\* C2: in every reachable state, whatever the interleaving of createQr()
\* calls, a coupon has at most one unexpired payment token.
C2_SingleActiveQr ==
    \A c \in DOMAIN coupons : Cardinality(ActiveTokens(c)) <= 1

C4_ApprovedCounts ==
    \A i \in DOMAIN issue_logs :
        (issue_logs[i].row /\ Approved(issue_logs[i].status)) =>
            /\ SumApproved(i) = issue_logs[i].approved_issue_count
            /\ Cardinality(CouponsOfIssue(i)) = issue_logs[i].approved_issue_count

\* C5: when the last unused coupons of an issue are confirmed by concurrent
\* confirm() calls, every rollup answers OK, the issue is COMPLETED once no
\* rollup is pending, and a rollup that finds the issue COMPLETED leaves the
\* issue rows as they are.
C5_RollupRepeatable ==
    [][ /\ (\A q \in Procs : calls'[q].pc # "confirm_rollup") =>
              \A i \in DOMAIN issue_logs :
                  (CouponsOfIssue(i) # {} /\ AllUsed(i)') =>
                      issue_logs'[i].status = "COMPLETED"
        /\ \A p \in Procs :
              ConfirmRollup(p) =>
                  /\ calls'[p].result = "OK"
                  /\ issue_logs[coupons[calls[p].coupon].issue_id].status
                        = "COMPLETED" => issue_logs' = issue_logs ]_vars

\* one confirm() has rolled the issue up while the other, its use log
\* written, has its own rollup still to run
C5_Witness ==
    \E p, q \in Procs :
        /\ calls[p].pc = "confirm_rollup"
        /\ Succeeded(q, "confirm")
        /\ calls[q].coupon # calls[p].coupon
        /\ issue_logs[coupons[calls[p].coupon].issue_id].status = "COMPLETED"

\* C6: an issue is COMPLETED only if every coupon of it has a use_log_id, and
\* right after a confirm() that succeeds with no other confirm in flight the
\* coupon's issue is COMPLETED exactly when all its coupons have one.
C6_CompletedIffAllUsed ==
    [][ /\ \A i \in DOMAIN issue_logs :
              issue_logs'[i].status = "COMPLETED" => AllUsed(i)'
        /\ \A p \in Procs :
              (/\ ConfirmRollup(p)
               /\ \A q \in Procs \ {p} : calls[q].pc # "confirm_rollup")
              => (issue_logs'[coupons[calls[p].coupon].issue_id].status
                    = "COMPLETED"
                  <=> AllUsed(coupons[calls[p].coupon].issue_id)') ]_vars

\* a confirm() has succeeded and left its issue ISSUED: a coupon is unused
C6_Witness ==
    \E p \in Procs :
        /\ Succeeded(p, "confirm")
        /\ \A q \in Procs : calls[q].pc # "confirm_rollup"
        /\ issue_logs[coupons[calls[p].coupon].issue_id].status = "ISSUED"
        /\ ~AllUsed(coupons[calls[p].coupon].issue_id)

\* C7: once createQr() has succeeded with token B for a coupon, every token
\* issued earlier for that coupon fails resolve() and confirm(), and B
\* resolves until it expires, is replaced or redeems the coupon.
C7_PriorTokenDead ==
    \A p \in Procs :
        Succeeded(p, "createQr") =>
            /\ \A a \in DOMAIN payment_qrs :
                  (a < calls[p].token
                   /\ payment_qrs[a].coupon_id = calls[p].coupon)
                  => ResolveResult(a) # "OK"
            /\ (/\ Unexpired(payment_qrs[calls[p].token])
                /\ coupons[calls[p].coupon].use_log_id = Null)
               => ResolveResult(calls[p].token) = "OK"

\* C8: a createQr() that fails leaves no payment_code record behind.
C8_NoOrphanQr ==
    \A p \in Procs :
        (Done(p, "createQr") /\ calls[p].result # "OK") =>
            calls[p].token \notin DOMAIN payment_qrs

\* C9: all coupons have pairwise distinct registration codes, concurrent
\* minting operations included.
C9_UniqueRegistrationCode ==
    \A c, d \in DOMAIN coupons :
        c # d => coupons[c].registration_code # coupons[d].registration_code

\* C10: an issue row is removed only by a vendor's delete() and only while
\* the issue is PENDING at the moment of removal.
C10_RemovedOnlyPending ==
    [][ \A i \in DOMAIN issue_logs :
          (issue_logs[i].row /\ ~issue_logs'[i].row) =>
              /\ Pending(issue_logs[i].status)
              /\ \E p \in Procs :
                    /\ DeleteCommit(p)
                    /\ calls[p].code = 1
                    /\ calls[p].member = issue_logs[i].vendor_id ]_vars

\* C11: an issue written by createRequest starts PENDING, and the status of a
\* stored issue only ever changes PENDING -> ISSUED, PENDING -> REJECTED or
\* ISSUED -> COMPLETED, whatever the interleaving of decide, delete and
\* confirm.
C11_StatusLifecycle ==
    [][ \A i \in DOMAIN issue_logs' :
          IF i \in DOMAIN issue_logs
            THEN (/\ issue_logs[i].row
                  /\ issue_logs'[i].row
                  /\ issue_logs'[i].status # issue_logs[i].status)
                 => <<issue_logs[i].status, issue_logs'[i].status>>
                       \in {<<"PENDING", "ISSUED">>, <<"PENDING", "REJECTED">>,
                            <<"ISSUED", "COMPLETED">>}
            ELSE issue_logs'[i].vendor_id # Null
                 => issue_logs'[i].status = "PENDING" ]_vars

\* C12: decide(), approve or reject, by the partner of an issue whose status
\* is not PENDING fails AlreadyDecided, however the issue reached that status,
\* and leaves the issue, its product lines and the coupons unchanged.
C12_DecidedRefused ==
    [][ \A p \in Procs :
          (Ready(p) /\ calls'[p].op = "decide" /\ calls'[p] # calls[p]) =>
            \A i \in DOMAIN issue_logs, k \in Partners, l \in ProductLists :
              (/\ issue_logs[i].row
               /\ issue_logs[i].partner_id = k
               /\ ~Pending(issue_logs[i].status)
               /\ \/ ProductsValid(l) /\ DecideRead(p, i, k, TRUE, l, Null)
                  \/ l = <<>> /\ DecideRead(p, i, k, FALSE, l, 1))
              => /\ calls'[p].pc = "done"
                 /\ calls'[p].result = "ERR-ALREADY-DECIDED"
                 /\ UNCHANGED <<issue_logs, issue_products, products,
                                coupons>> ]_vars

\* C13: a decide(approve) that fails InvalidValue at any allocation of its
\* list leaves the stored state as it was before the call: no coupon, product,
\* product line or issue field written for the earlier allocations is visible.
C13_DecideAllOrNothing ==
    [][ \A p \in Procs :
          (/\ DecideCommit(p)
           /\ calls[p].approve
           /\ calls'[p].result = "ERR-IVD-VALUE")
          => UNCHANGED <<issue_logs, issue_products, products, coupons>> ]_vars

\* a decide(approve) has failed at its second allocation, the first one naming
\* a new product
C13_Witness ==
    \E p \in Procs :
        /\ Done(p, "decide")
        /\ calls[p].result = "ERR-IVD-VALUE"
        /\ Len(calls[p].alloc) = 2
        /\ calls[p].alloc[1].is_new
        /\ calls[p].alloc[1].count > 0

\* C14: after decide(approve) succeeds, every REQUEST-stage product line of
\* the issue is still stored with its stage, product and count, next to the
\* APPROVE-stage lines of the approval.
C14_RequestLinesKept ==
    [][ \A p \in Procs :
          (/\ DecideCommit(p)
           /\ calls[p].approve
           /\ calls'[p].result = "OK")
          => \A k \in DOMAIN issue_products :
                (/\ issue_products[k].issue_id = calls[p].issue
                 /\ issue_products[k].stage = "REQUEST")
                => issue_products'[k] = issue_products[k] ]_vars

\* C15: delete() by the vendor (the partner) of an issue that is ISSUED or
\* REJECTED sets vendor_deleted_at (partner_deleted_at), keeps the row, leaves
\* the status and the other side's marker as they are; the issue is then
\* absent from the deleting side's query and the other side's query is as it
\* was.
C15_SoftDelete ==
    [][ \A p \in Procs :
          DeleteCommit(p) =>
            \A i \in calls[p].del.ids \cap DOMAIN issue_logs :
              LET r == issue_logs[i]
                  byVendor == calls[p].code = 1
              IN  (/\ r.row
                   /\ r.status \in {"ISSUED", "REJECTED"}
                   /\ IF byVendor
                        THEN r.vendor_id = calls[p].member
                             /\ r.vendor_deleted_at = Null
                        ELSE r.partner_id = calls[p].member
                             /\ r.partner_deleted_at = Null)
                  => /\ issue_logs'[i].row
                     /\ issue_logs'[i].status = r.status
                     /\ IF byVendor
                          THEN /\ issue_logs'[i].vendor_deleted_at # Null
                               /\ issue_logs'[i].partner_deleted_at
                                     = r.partner_deleted_at
                               /\ i \notin FindIssuesByUser("member", r.vendor_id)'
                               /\ i \in FindIssuesByUser("partner", r.partner_id)'
                                     <=> i \in FindIssuesByUser("partner",
                                                                r.partner_id)
                          ELSE /\ issue_logs'[i].partner_deleted_at # Null
                               /\ issue_logs'[i].vendor_deleted_at
                                     = r.vendor_deleted_at
                               /\ i \notin FindIssuesByUser("partner",
                                                            r.partner_id)'
                               /\ i \in FindIssuesByUser("member", r.vendor_id)'
                                     <=> i \in FindIssuesByUser("member",
                                                                r.vendor_id)
          ]_vars

\* C16: delete() by the partner of a PENDING issue sets status REJECTED,
\* decided_at and partner_deleted_at, leaves vendor_deleted_at unset and mints
\* no coupon; the vendor's query then shows the issue, as REJECTED, and the
\* partner's query does not show it.
C16_PartnerDeleteRejects ==
    [][ \A p \in Procs :
          (DeleteCommit(p) /\ calls[p].code = 2) =>
            \A i \in calls[p].del.ids \cap DOMAIN issue_logs :
              LET r == issue_logs[i]
              IN  (/\ r.row
                   /\ r.status = "PENDING"
                   /\ r.partner_id = calls[p].member
                   /\ r.partner_deleted_at = Null)
                  => /\ issue_logs'[i].row
                     /\ issue_logs'[i].status = "REJECTED"
                     /\ issue_logs'[i].decided_at # Null
                     /\ issue_logs'[i].partner_deleted_at # Null
                     /\ issue_logs'[i].vendor_deleted_at = Null
                     /\ coupons' = coupons
                     /\ i \in FindIssuesByUser("member", r.vendor_id)'
                     /\ i \notin FindIssuesByUser("partner", r.partner_id)'
          ]_vars

\* a partner's delete() has rejected a pending request: the issue is REJECTED
\* without a reason and hidden from the partner
C16_Witness ==
    \E p \in Procs, i \in DOMAIN issue_logs :
        /\ Succeeded(p, "delete")
        /\ calls[p].code = 2
        /\ issue_logs[i].row
        /\ issue_logs[i].status = "REJECTED"
        /\ issue_logs[i].reason = Null
        /\ issue_logs[i].partner_id = calls[p].member
        /\ issue_logs[i].partner_deleted_at # Null
        /\ i \in FindIssuesByUser("member", issue_logs[i].vendor_id)

C18_ReRegisterNoOp ==
    [][ \A p \in Procs :
          (/\ RegisterWrite(p)
           /\ coupons[calls[p].coupon].register_id = calls[p].member)
          => /\ calls'[p].result = "OK"
             /\ register_logs' = register_logs
             /\ coupons' = coupons ]_vars

\* C19: register() fails InvalidValue when the coupon id is unknown or the
\* code differs from the coupon's registration_code, and NotYours when the
\* code is right and register_id is another consumer's; a register() that
\* fails creates no RegisterLog and changes no coupon field.
C19_RegisterFailures ==
    [][ \A p \in Procs, c \in CouponIds, rc \in RegistrationCodes, s \in Sigs,
           m \in Members :
          RegisterRead(p, c, rc, s, m) =>
            /\ (c \notin DOMAIN coupons \/ coupons[c].registration_code # rc)
                 => calls'[p].result = "ERR-IVD-VALUE"
            /\ (/\ c \in DOMAIN coupons
                /\ coupons[c].registration_code = rc
                /\ coupons[c].register_id \notin {Null, m})
                 => calls'[p].result = "ERR-NOT-YOURS"
            /\ calls'[p].result # "none"
                 => /\ calls'[p].pc = "done"
                    /\ calls'[p].result \in {"ERR-IVD-VALUE", "ERR-NOT-YOURS"}
                    /\ UNCHANGED <<register_logs, coupons>> ]_vars

\* a register() for a coupon that is another consumer's has been refused
C19_Witness ==
    \E p \in Procs :
        /\ Done(p, "register")
        /\ calls[p].result = "ERR-NOT-YOURS"
        /\ \E c \in DOMAIN coupons : coupons[c].register_id # Null

\* C20: previewByCode answers with a coupon only when a coupon carries the
\* code and is unclaimed; an unknown code is InvalidValue; a claimed coupon is
\* NotYours for every caller, its registrant included; a claimed coupon stays
\* claimed under the same code; previewByCode changes no table.
C20_Preview ==
    [][ /\ \A p \in Procs, rc \in RegistrationCodes, m \in Members :
             GetCouponByRegistrationCode(p, rc, m) =>
               /\ calls'[p].result = "OK"
                    => /\ calls'[p].coupon \in DOMAIN coupons
                       /\ coupons[calls'[p].coupon].registration_code = rc
                       /\ coupons[calls'[p].coupon].register_id = Null
               /\ (\A k \in DOMAIN coupons : coupons[k].registration_code # rc)
                    => calls'[p].result = "ERR-IVD-VALUE"
               /\ (\E k \in DOMAIN coupons :
                       /\ coupons[k].registration_code = rc
                       /\ coupons[k].register_id # Null)
                    => calls'[p].result = "ERR-NOT-YOURS"
               /\ UNCHANGED <<now, partner_users, issue_logs, issue_products,
                              products, coupons, register_logs, use_logs,
                              payment_qrs>>
        /\ \A k \in DOMAIN coupons :
             coupons[k].register_id # Null
               => /\ k \in DOMAIN coupons'
                  /\ coupons'[k].register_id # Null
                  /\ coupons'[k].registration_code = coupons[k].registration_code
      ]_vars

\* a preview of a claimed coupon has been refused, and a preview of an
\* unclaimed one answered
C20_Witness ==
    \E p, q \in Procs :
        /\ Done(p, "preview")
        /\ calls[p].result = "ERR-NOT-YOURS"
        /\ Succeeded(q, "preview")
        /\ coupons[calls[q].coupon].register_id = Null

\* the register log a coupon currently points at is soft-deleted
SoftDeleted(k) ==
    /\ coupons[k].register_log_id # Null
    /\ register_logs[coupons[k].register_log_id].deleted_at # Null

\* C21: list(consumer) returns exactly the coupons claimed by the consumer
\* whose current register log is not soft-deleted; detail(coupon, consumer)
\* is InvalidValue for an unknown or soft-deleted coupon, NotYours for a
\* visible coupon claimed by nobody or by another consumer, and succeeds
\* otherwise.
C21_ListAndDetail ==
    [][ \A p \in Procs :
          /\ (calls'[p].op = "list" /\ calls'[p] # calls[p]) =>
               \A m \in Members :
                 GetCouponsByMember(p, m) =>
                   calls'[p].items =
                     {k \in DOMAIN coupons :
                        coupons[k].register_id = m /\ ~SoftDeleted(k)}
          /\ (calls'[p].op = "detail" /\ calls'[p] # calls[p]) =>
               \A c \in CouponIds, m \in Members :
                 GetCouponDetail(p, c, m) =>
                   calls'[p].result =
                     IF c \notin DOMAIN coupons \/ SoftDeleted(c)
                       THEN "ERR-IVD-VALUE"
                     ELSE IF coupons[c].register_id # m THEN "ERR-NOT-YOURS"
                     ELSE "OK" ]_vars

\* a consumer holding a soft-deleted coupon and a visible one has listed
\* the wallet
C21_Witness ==
    \E p \in Procs :
        /\ Done(p, "list")
        /\ calls[p].items # {}
        /\ \E k \in DOMAIN coupons :
              /\ coupons[k].register_id = calls[p].member
              /\ SoftDeleted(k)
              /\ k \notin calls[p].items

\* the ids of a batch that are coupons claimed by the consumer
OwnedIn(ids, m) ==
    {k \in ids : k \in DOMAIN coupons /\ coupons[k].register_id = m}

\* C22: softDelete(ids, consumer) fails InvalidValue when no id of the batch
\* is a coupon claimed by the consumer and NotYours when some but not all
\* are; a failing call changes no register log.
C22_DeleteBatchRefused ==
    [][ \A p \in Procs :
          (calls'[p].op = "delete_coupons" /\ calls'[p] # calls[p]) =>
            \A ids \in CouponBatches, m \in Members :
              DeleteCouponsValidate(p, ids, m) =>
                /\ OwnedIn(ids, m) = {} => calls'[p].result = "ERR-IVD-VALUE"
                /\ (OwnedIn(ids, m) # {} /\ OwnedIn(ids, m) # ids)
                     => calls'[p].result = "ERR-NOT-YOURS"
                /\ OwnedIn(ids, m) # ids
                     => /\ calls'[p].pc = "done"
                        /\ register_logs' = register_logs ]_vars

\* both refusals have been given: one worker a NotYours, the other an
\* InvalidValue
C22_Witness ==
    \E p, q \in Procs :
        /\ Done(p, "delete_coupons") /\ calls[p].result = "ERR-NOT-YOURS"
        /\ Done(q, "delete_coupons") /\ calls[q].result = "ERR-IVD-VALUE"

\* C23: a softDelete that succeeds leaves every coupon of the batch with a
\* soft-deleted register log and delivers exactly the coupons of the batch
\* that have no use log.
C23_DeleteDelivers ==
    [][ \A p \in Procs :
          MarkCouponsAsDeleted(p) =>
            /\ \A k \in calls[p].items : SoftDeleted(k)'
            /\ calls'[p].items =
                 {k \in calls[p].items : coupons[k].use_log_id = Null} ]_vars

\* C24: createQr(coupon, owner) is InvalidValue for an unknown coupon,
\* NotYours for a coupon whose register_id is not the owner, InvalidValue
\* for the owner's used or expired coupon; a refused call stores no payment
\* token and expires none.
C24_CreateQrRefused ==
    [][ \A p \in Procs :
          (calls'[p].op = "createQr" /\ calls'[p] # calls[p]) =>
            \A c \in CouponIds, m \in Members :
              CreateQrCheck(p, c, m) =>
                /\ c \notin DOMAIN coupons => calls'[p].result = "ERR-IVD-VALUE"
                /\ (c \in DOMAIN coupons /\ coupons[c].register_id # m)
                     => calls'[p].result = "ERR-NOT-YOURS"
                /\ (/\ c \in DOMAIN coupons
                    /\ coupons[c].register_id = m
                    /\ \/ coupons[c].use_log_id # Null
                       \/ coupons[c].expired_at < now)
                     => calls'[p].result = "ERR-IVD-VALUE"
                /\ calls'[p].result # "none"
                     => /\ calls'[p].pc = "done"
                        /\ payment_qrs' = payment_qrs ]_vars

\* C25: resolve(paymentCode) is InvalidValue for an unknown code and for a
\* token whose expired_at has passed, AlreadyUsed for a live token of a used
\* coupon, and otherwise answers with the token's coupon; it changes no
\* stored state.
C25_Resolve ==
    [][ \A p \in Procs :
          (calls'[p].op = "resolve" /\ calls'[p] # calls[p]) =>
            \A pc \in PaymentCodes :
              GetPaymentTransaction(p, pc) =>
                /\ calls'[p].result =
                     IF pc \notin DOMAIN payment_qrs THEN "ERR-IVD-VALUE"
                     ELSE IF payment_qrs[pc].expired_at <= now
                       THEN "ERR-IVD-VALUE"
                     ELSE IF coupons[payment_qrs[pc].coupon_id].use_log_id # Null
                       THEN "ERR-ALREADY-USED"
                     ELSE "OK"
                /\ calls'[p].result = "OK"
                     => calls'[p].coupon = payment_qrs[pc].coupon_id
                /\ UNCHANGED <<now, partner_users, issue_logs, issue_products,
                               products, coupons, register_logs, use_logs,
                               payment_qrs>> ]_vars

\* a resolve of a live token of a used coupon has been refused, and so has a
\* resolve at a time when every stored token had expired
C25_Witness ==
    \E p, q \in Procs :
        /\ Done(p, "resolve") /\ calls[p].result = "ERR-ALREADY-USED"
        /\ Done(q, "resolve") /\ calls[q].result = "ERR-IVD-VALUE"
        /\ \A k \in DOMAIN payment_qrs : payment_qrs[k].expired_at <= now

\* C26: a decide(approve) that succeeds on a PENDING issue leaves exactly
\* c1+...+cn coupons of the issue: for every existing product as many as
\* the allocations naming it ask for, the others on products created for the
\* allocations that name a new product; each coupon is the deciding
\* partner's, unclaimed, unused, and expires valid_days after decided_at; the
\* issue is ISSUED with approved_issue_count c1+...+cn.
C26_ApproveMints ==
    [][ \A p \in Procs :
          (/\ DecideCommit(p)
           /\ calls[p].approve
           /\ calls'[p].result = "OK"
           /\ IssueExists(calls[p].issue)
           /\ Pending(issue_logs[calls[p].issue].status)) =>
            LET i == calls[p].issue
                alloc == calls[p].alloc
                minted == {k \in DOMAIN coupons' : coupons'[k].issue_id = i}
            IN  /\ Cardinality(minted) = SumCounts(alloc)
                /\ \A q \in DOMAIN products :
                      Cardinality({k \in minted : coupons'[k].product_id = q})
                        = SumCounts(SelectSeq(alloc,
                            LAMBDA a : ~a.is_new /\ a.product_id = q))
                /\ \A k \in minted :
                      /\ coupons'[k].product_id \in DOMAIN products'
                      /\ coupons'[k].product_id \notin DOMAIN products =>
                            \E n \in DOMAIN alloc :
                              /\ alloc[n].is_new
                              /\ products'[coupons'[k].product_id].product_name
                                    = alloc[n].product_name
                              /\ products'[coupons'[k].product_id].partner_id
                                    = calls[p].member
                      /\ coupons'[k].partner_id = calls[p].member
                      /\ coupons'[k].register_id = Null
                      /\ coupons'[k].use_log_id = Null
                      /\ coupons'[k].expired_at
                            = issue_logs'[i].decided_at + ValidDays * DaySeconds
                /\ issue_logs'[i].status = "ISSUED"
                /\ issue_logs'[i].decided_at = now
                /\ issue_logs'[i].approved_issue_count = SumCounts(alloc) ]_vars

\* an approval of two allocations, one of them for a new product, has minted
C26_Witness ==
    \E p \in Procs, i \in DOMAIN issue_logs :
        /\ Succeeded(p, "decide")
        /\ calls[p].approve
        /\ calls[p].issue = i
        /\ issue_logs[i].row
        /\ issue_logs[i].vendor_id # Null
        /\ issue_logs[i].status = "ISSUED"
        /\ issue_logs[i].approved_issue_count = 2
        /\ \E k \in CouponsOfIssue(i) :
              coupons[k].product_id \notin DOMAIN InitProducts
        /\ \E k \in CouponsOfIssue(i) :
              coupons[k].product_id \in DOMAIN InitProducts

\* C27: decide(reject) with no reason is InvalidValue and changes nothing;
\* with a reason, on a PENDING issue of the calling partner, it is accepted
\* and sets status REJECTED, decided_at and the reason, mints no coupon and
\* changes no product line.
C27_Reject ==
    [][ \A p \in Procs :
          /\ (calls'[p].op = "decide" /\ calls'[p] # calls[p] /\ Ready(p)) =>
               \A i \in IssueIds, k \in Partners, r \in {Null, 1} :
                 DecideRead(p, i, k, FALSE, <<>>, r) =>
                   /\ r = Null => calls'[p].result = "ERR-IVD-VALUE"
                   /\ (/\ r # Null
                       /\ IssueExists(i)
                       /\ issue_logs[i].partner_id = k
                       /\ Pending(issue_logs[i].status))
                        => calls'[p].pc = "decide_commit"
                   /\ UNCHANGED <<issue_logs, issue_products, products,
                                  coupons>>
          /\ (/\ DecideCommit(p)
              /\ ~calls[p].approve
              /\ IssueExists(calls[p].issue)
              /\ Pending(issue_logs[calls[p].issue].status)) =>
               /\ calls'[p].result = "OK"
               /\ issue_logs'[calls[p].issue].status = "REJECTED"
               /\ issue_logs'[calls[p].issue].decided_at = now
               /\ issue_logs'[calls[p].issue].reason = calls[p].code
               /\ calls[p].code # Null
               /\ UNCHANGED <<issue_products, products, coupons>> ]_vars

\* a vendor's request has been rejected with a reason and has no coupon
C27_Witness ==
    \E p \in Procs, i \in DOMAIN issue_logs :
        /\ Succeeded(p, "decide")
        /\ ~calls[p].approve
        /\ calls[p].issue = i
        /\ issue_logs[i].row
        /\ issue_logs[i].status = "REJECTED"
        /\ issue_logs[i].reason # Null
        /\ issue_logs[i].decided_at # Null
        /\ CouponsOfIssue(i) = {}

\* a product list that is empty or has a line with no positive count or no
\* product reference
MalformedLines(l) ==
    \/ l = <<>>
    \/ \E n \in DOMAIN l :
          \/ l[n].count <= 0
          \/ l[n].is_new /\ l[n].product_name = Null
          \/ ~l[n].is_new /\ l[n].product_id = Null

\* a partner reference that lacks a field or names no partner
IncompletePartner(pr) ==
    IF pr.isNew THEN pr.partnerName = Null \/ pr.partnerPhone = <<>>
                ELSE pr.partnerId \notin DOMAIN partner_users

\* C28: createRequest is InvalidValue for an empty product list, a line with
\* count <= 0 or without its product reference, or an incomplete partner
\* reference; a failing call leaves no issue, line or product behind; a
\* successful one adds one PENDING issue whose requested_issue_count is the
\* sum of the line counts, with one REQUEST line per requested line.
C28_CreateRequest ==
    [][ \A p \in Procs :
          (calls'[p].op = "createRequest" /\ calls'[p] # calls[p] /\ Ready(p)) =>
            \A v \in Vendors, pr \in RequestPartnerRefs, l \in RequestLists :
              CreateIssueRequest(p, v, 1, pr, l) =>
                /\ (MalformedLines(l) \/ IncompletePartner(pr))
                     => calls'[p].result = "ERR-IVD-VALUE"
                /\ calls'[p].result # "OK"
                     => UNCHANGED <<issue_logs, issue_products, products>>
                /\ calls'[p].result = "OK"
                     => LET i == Len(issue_logs) + 1
                            req == SelectSeq(issue_products',
                                             LAMBDA x : x.issue_id = i)
                        IN  /\ Len(issue_logs') = i
                            /\ SubSeq(issue_logs', 1, Len(issue_logs)) = issue_logs
                            /\ issue_logs'[i].status = "PENDING"
                            /\ issue_logs'[i].vendor_id = v
                            /\ issue_logs'[i].requested_issue_count = SumCounts(l)
                            /\ Len(req) = Len(l)
                            /\ \A n \in DOMAIN l :
                                  /\ req[n].stage = "REQUEST"
                                  /\ req[n].count = l[n].count ]_vars

\* a request has been refused while a product it named was being created:
\* no product, issue or line of the call is stored
C28_Witness ==
    \E p \in Procs :
        /\ Done(p, "createRequest")
        /\ calls[p].result = "ERR-IVD-VALUE"
        /\ products = InitProducts
        /\ issue_logs = <<>>
        /\ issue_products = <<>>

\* C29: the partner_phone createRequest stores for a (name, phone) partner
\* reference has digits only, and is the phone under which that partner is
\* stored when signing up with the same number.
C29_PhoneDigitsOnly ==
    [][ \A phone \in Phones, l \in {<<NewLine(1, n)>> : n \in 1..MaxCount} :
          (/\ Len(issue_logs') = Len(issue_logs) + 1
           /\ CreateIssueRequest(1, 1, 1,
                  [isNew |-> TRUE, partnerId |-> Null, partnerName |-> 1,
                   partnerPhone |-> phone], l)
           /\ calls'[1].result = "OK") =>
            LET stored == issue_logs'[Len(issue_logs')].partner_phone
            IN  /\ \A n \in DOMAIN stored :
                      \E d \in DOMAIN Digits : Digits[d] = stored[n]
                /\ stored = PhoneService_normalize_phone(phone) ]_vars

\* C30: a selfIssue that succeeds appends one issue with no vendor, status
\* ISSUED, requested_at = decided_at and requested_issue_count =
\* approved_issue_count = c1+...+cn, writes one APPROVE line per allocation
\* and mints c1+...+cn coupons expiring valid_days after decided_at; a
\* selfIssue that fails leaves no issue, line, product or coupon.
C30_SelfIssue ==
    [][ \A p \in Procs :
          SelfIssueCommit(p) =>
            LET alloc == calls[p].alloc
                i == Len(issue_logs) + 1
            IN  /\ calls'[p].result \in {"OK", "ERR-IVD-VALUE"}
                /\ calls'[p].result # "OK"
                     => UNCHANGED <<issue_logs, issue_products, products,
                                    coupons>>
                /\ calls'[p].result = "OK"
                     => LET lines == SelectSeq(issue_products',
                                               LAMBDA x : x.issue_id = i)
                            minted == {k \in DOMAIN coupons' :
                                         coupons'[k].issue_id = i}
                        IN  /\ Len(issue_logs') = i
                            /\ SubSeq(issue_logs', 1, Len(issue_logs)) = issue_logs
                            /\ issue_logs'[i].vendor_id = Null
                            /\ issue_logs'[i].partner_id = calls[p].member
                            /\ issue_logs'[i].status = "ISSUED"
                            /\ issue_logs'[i].decided_at # Null
                            /\ issue_logs'[i].requested_at
                                  = issue_logs'[i].decided_at
                            /\ issue_logs'[i].requested_issue_count
                                  = SumCounts(alloc)
                            /\ issue_logs'[i].approved_issue_count
                                  = SumCounts(alloc)
                            /\ Len(lines) = Len(alloc)
                            /\ \A n \in DOMAIN alloc :
                                  /\ lines[n].stage = "APPROVE"
                                  /\ lines[n].count = alloc[n].count
                                  /\ Cardinality({k \in minted :
                                        coupons'[k].product_id
                                          = lines[n].product_id})
                                       = SumCounts(SelectSeq(lines,
                                           LAMBDA x : x.product_id
                                                        = lines[n].product_id))
                            /\ Cardinality(minted) = SumCounts(alloc)
                            /\ DOMAIN coupons' \ DOMAIN coupons = minted
                            /\ \A k \in minted :
                                  /\ coupons'[k].partner_id = calls[p].member
                                  /\ coupons'[k].register_id = Null
                                  /\ coupons'[k].use_log_id = Null
                                  /\ coupons'[k].expired_at
                                        = issue_logs'[i].decided_at
                                            + ValidDays * DaySeconds ]_vars

\* a partner has issued two allocations of one unit each on its own
C30_Witness ==
    \E p \in Procs, i \in DOMAIN issue_logs :
        /\ Succeeded(p, "selfIssue")
        /\ calls[p].issue = i
        /\ issue_logs[i].vendor_id = Null
        /\ issue_logs[i].status = "ISSUED"
        /\ issue_logs[i].approved_issue_count = 2
        /\ Len(SelectSeq(issue_products, LAMBDA x : x.issue_id = i)) = 2
        /\ Cardinality(CouponsOfIssue(i)) = 2

\* C31: of two decide() calls, one of them an approval, that both read the
\* issue PENDING, the one whose writes come second fails AlreadyDecided and writes nothing, so one
\* decision takes effect and at most one call mints coupons for the issue.
C31_OneDecision ==
    [][ \A p \in Procs :
          (/\ DecideCommit(p)
           /\ IssueExists(calls[p].issue)
           /\ ~Pending(issue_logs[calls[p].issue].status)
           /\ calls[p].approve \/ Approved(issue_logs[calls[p].issue].status)) =>
            /\ calls'[p].result = "ERR-ALREADY-DECIDED"
            /\ UNCHANGED <<issue_logs, issue_products, products, coupons>> ]_vars

\* C32: an issue whose status is REJECTED has no coupon, also when a
\* partner's delete() of the pending issue runs along a decide(approve).
C32_RejectedHasNoCoupon ==
    \A i \in DOMAIN issue_logs :
        (issue_logs[i].row /\ issue_logs[i].status = "REJECTED")
            => CouponsOfIssue(i) = {}

\* C33: a delete() whose batch holds an existing issue the actor is neither
\* vendor nor partner of fails NotYours and leaves every issue as it was.
C33_ForeignIssueRefused ==
    [][ \A p \in Procs :
          (/\ DeleteCommit(p)
           /\ \E i \in calls[p].del.ids :
                 /\ IssueExists(i)
                 /\ IF calls[p].code = 1
                      THEN issue_logs[i].vendor_id # calls[p].member
                      ELSE issue_logs[i].partner_id # calls[p].member) =>
            /\ calls'[p].result = "ERR-NOT-YOURS"
            /\ issue_logs' = issue_logs ]_vars

\* C34: a decide() by a partner other than the issue's partner_id, also when
\* that partner_id is still null, fails InvalidValue and leaves the issue,
\* its lines and the coupons unchanged; only the issue's partner writes.
C34_OnlyItsPartnerDecides ==
    [][ \A p \in Procs :
          /\ (calls'[p].op = "decide" /\ calls'[p] # calls[p] /\ Ready(p)) =>
                /\ UNCHANGED <<issue_logs, issue_products, products, coupons>>
                /\ calls'[p].pc = "decide_commit" =>
                      /\ IssueExists(calls'[p].issue)
                      /\ issue_logs[calls'[p].issue].partner_id = calls'[p].member
                /\ calls'[p].result = "ERR-ALREADY-DECIDED" =>
                      \A i \in IssueIds, k \in Partners :
                        (IssueExists(i) /\ issue_logs[i].partner_id # k) =>
                          \A approve \in BOOLEAN, l \in ProductLists,
                             r \in {Null, 1} :
                            ~DecideRead(p, i, k, approve, l, r)
          /\ DecideCommit(p) =>
                /\ IssueExists(calls[p].issue)
                /\ issue_logs[calls[p].issue].partner_id = calls[p].member ]_vars

\* a decide() was refused while the pending issue waits for a partner who
\* has not registered yet
C34_Witness ==
    /\ calls[1].op = "decide"
    /\ calls[1].result = "ERR-IVD-VALUE"
    /\ Len(issue_logs) = 1
    /\ issue_logs[1].row
    /\ issue_logs[1].partner_id = Null
    /\ Pending(issue_logs[1].status)

\* C35: a coupon whose registration is soft-deleted stays hidden: no step
\* makes it appear in its registrant's list() or succeed in detail() again.
C35_StaysHidden ==
    [][ \A k \in DOMAIN coupons :
          SoftDeleted(k) =>
            /\ k \notin FindCouponsByMemberId(coupons[k].register_id)'
            /\ DetailCheck(k, coupons[k].register_id)' # "OK" ]_vars

\* C36: a coupon that has a use_log_id has a register_id: redemption goes
\* through a payment token, and tokens are made for claimed coupons only.
C36_UsedIsRegistered ==
    \A k \in DOMAIN coupons :
        coupons[k].use_log_id # Null => coupons[k].register_id # Null

\* a coupon of the unclaimed batch has been claimed and redeemed while
\* another one is still unclaimed
C36_Witness ==
    \E k, j \in DOMAIN coupons :
        /\ coupons[k].use_log_id # Null
        /\ coupons[k].register_id # Null
        /\ coupons[j].register_id = Null
        /\ \E q \in DOMAIN payment_qrs : payment_qrs[q].coupon_id = k

\* C37: map_partner_to_issues for a new partner with phone P sets partner_id
\* on exactly the issues with no partner_id and partner_phone P, gives each
\* of their name-only lines a new product of that partner, changes no other
\* issue, line or product, and leaves those issues shown to the partner and
\* open to its decision.
C37_MapPartnerToIssues ==
    [][ \A p \in Procs :
          MapPartnerToIssues(p) =>
            LET k == calls[p].member
                P == partner_users[k].phone
                M == {i \in DOMAIN issue_logs :
                        /\ issue_logs[i].row
                        /\ issue_logs[i].partner_id = Null
                        /\ issue_logs[i].partner_phone = P}
                L == {l \in DOMAIN issue_products :
                        /\ issue_products[l].issue_id \in M
                        /\ issue_products[l].product_id = Null
                        /\ issue_products[l].product_name # Null}
            IN  /\ issue_logs' = [i \in DOMAIN issue_logs |->
                      IF i \in M THEN [issue_logs[i] EXCEPT !.partner_id = k]
                                 ELSE issue_logs[i]]
                /\ DOMAIN issue_products' = DOMAIN issue_products
                /\ \A l \in DOMAIN issue_products :
                      IF l \in L
                        THEN /\ issue_products'[l] =
                                  [issue_products[l] EXCEPT
                                     !.product_id = issue_products'[l].product_id]
                             /\ issue_products'[l].product_id
                                  \in DOMAIN products' \ DOMAIN products
                             /\ products'[issue_products'[l].product_id] =
                                  [partner_id |-> k,
                                   product_name |-> issue_products[l].product_name]
                             /\ \A j \in L \ {l} :
                                  issue_products'[j].product_id
                                    # issue_products'[l].product_id
                        ELSE issue_products'[l] = issue_products[l]
                /\ Len(products') = Len(products) + Cardinality(L)
                /\ SubSeq(products', 1, Len(products)) = products
                /\ M \subseteq FindIssuesByUser("partner", k)'
                /\ \A i \in M :
                      /\ FindIssueForDecision(i, k)'
                      /\ Pending(issue_logs'[i].status) ]_vars

\* a shop that signed up with the phone of the two-product request has
\* decided that request while the other shop's request still waits
C37_Witness ==
    /\ Len(partner_users) = NumPartners + 1
    /\ issue_logs[1].partner_id = NumPartners + 1
    /\ issue_logs[1].status = "REJECTED"
    /\ issue_logs[2].partner_id = Null
    /\ issue_logs[3].partner_id = 1
    /\ issue_products[1].product_id = Len(InitProducts) + 1
    /\ issue_products[2].product_id = Len(InitProducts) + 2
    /\ issue_products[3].product_id = Null

\* C38: a phone auth token is consumed successfully at most once: every
\* consume call that returns the phone found the token stored and removed
\* it, also when two calls run concurrently against the SQL store.
C38_ConsumedOnce ==
    [][ \A p \in Procs :
          (/\ calls'[p] # calls[p]
           /\ calls'[p].op = "consumeToken"
           /\ calls'[p].result = "OK") =>
            /\ phone_auth_tokens[calls'[p].token].row
            /\ ~phone_auth_tokens'[calls'[p].token].row ]_vars

====
